---- MODULE Spec2Model ----
(***************************************************************************)
(* A model of the scrippet manager (src/src/scrippet-manager.ts): the      *)
(* descriptor registry, the change coalescer with its adaptive debounce,   *)
(* the full reload and the incremental flush, each asynchronous handler    *)
(* split at its suspension points (awaits of storage I/O).                 *)
(*                                                                         *)
(* The manager's fields are VARIABLES.  Synchronous code is written as     *)
(* operators from a snapshot record of the fields (Mgr) to the record      *)
(* after the code ran; an action applies such operators and commits the    *)
(* result (Commit).  Variables whose name starts with h are history        *)
(* variables: they record what happened and no modelled code reads them.   *)
(***************************************************************************)
EXTENDS Integers, Sequences, FiniteSets, TLC

\* ------------------------------------------------------------------ bounds

\* storage changes delivered as watcher events in one behaviour of Spec,
\* renames in one behaviour of SpecRename
MaxChanges == 2
\* user operations (reload, resolve a duplicate, toggle) in one behaviour
MaxUserOps == 1
\* asynchronous operations of the manager that may be in flight together
MaxProcs == 2
\* storage changes during the scans of SpecScan
MaxScanChanges == 1
\* full reloads in one behaviour of SpecScan
MaxScans == 2
\* last instant (ms) of the timed specification
MaxTime == 2600
\* events queued without the timer firing, in the timed specification
MaxBurst == 10
\* invocations (executeById) in one behaviour of SpecInvoke
MaxInvocations == 2
\* storage changes and user operations in one behaviour of SpecInvokeReload
MaxInvokeEvents == 2
\* user operations in one behaviour of SpecStartup
MaxStartupOps == 2

\* watcher events in one behaviour of SpecPending
MaxPendingEvents == 3

\* ------------------------------------------------------ program constants

baseReloadDelay == 200
maxReloadDelay == 1000
BurstWindow == 500
BurstStep == 100
\* one step of the clock of the timed specification, in ms
TickMs == BurstStep
\* Date.now() at the first instant: at least BurstWindow after lastChangeAt = 0
StartTime == BurstWindow

NoTimer == -1
STARTUP_FOLDER == "startup"
FullMark == "<full>"

\* ---------------------------------------------------------- map helpers

EmptyMap == [x \in {} |-> x]
Has(m, k) == k \in DOMAIN m
Put(m, k, v) == [x \in DOMAIN m \cup {k} |-> IF x = k THEN v ELSE m[x]]
Del(m, k) == [x \in DOMAIN m \ {k} |-> m[x]]
Values(m) == {m[k] : k \in DOMAIN m}
SeqToSet(s) == {s[i] : i \in 1..Len(s)}
Without(s, x) == SelectSeq(s, LAMBDA y : y # x)

\* ------------------------------------------------------------- storage

\* The files of the managed root: two directly under it, two in the startup
\* folder.  All carry an allowed extension.
CommandPaths == {"a.js", "b.js"}
StartupPaths == {"startup/s.js", "startup/t.js"}
Paths == CommandPaths \cup StartupPaths

\* The paths at which the storage changes while the manager runs.
EventPaths == CommandPaths \cup {"startup/s.js"}

\* A file's content is abstracted to the raw value of its id directive
\* ("" when the header gives no id).
RawIds == {"", "Foo", "foo-2", "??"}

isWithinStartup(path) == path \in StartupPaths

isAllowedExtension(path) == path \in Paths

resolveKind(path) ==
  IF isWithinStartup(path) THEN "startup"
  ELSE IF path \in Paths THEN "command"
  ELSE "none"

\* ------------------------------------------------------------- metadata

\* slugify on the values of the model: lower-case, runs of other characters
\* to one hyphen, hyphens trimmed at both ends.  Values already in slug form
\* are unchanged.
slugify(value) ==
  CASE value = "Foo" -> "foo"
    [] value = "??" -> ""
    [] value = "a.js" -> "a-js"
    [] OTHER -> value

getBasename(path) ==
  CASE path = "a.js" -> "a.js"
    [] path = "b.js" -> "b.js"
    [] path = "startup/s.js" -> "s.js"
    [] path = "startup/t.js" -> "t.js"
    [] OTHER -> path

StripJs(base) ==
  CASE base = "a.js" -> "a"
    [] base = "b.js" -> "b"
    [] base = "s.js" -> "s"
    [] base = "t.js" -> "t"
    [] OTHER -> base

toIdentifier(path, raw) ==
  IF raw # "" THEN slugify(raw) ELSE slugify(StripJs(getBasename(path)))

\* No @name directive in the model's contents: the prettified file name.
toDisplayName(path) ==
  CASE path = "a.js" -> "A.Js"
    [] path = "b.js" -> "B.Js"
    [] path = "startup/s.js" -> "S.Js"
    [] path = "startup/t.js" -> "T.Js"
    [] OTHER -> path

\* updateScrippetId on the abstracted content: the header's id becomes newId.
updateScrippetId(source, newId) == newId

\* ----------------------------------------------------------- the loader

\* The values a script can leave in the bindings loadScrippet declares for
\* it: undefined; the object module.exports and exports start with ({},
\* "initial"); an object without invoke; an object with a callable invoke
\* ("module"); a class whose instances have invoke; a class whose instances
\* have none; a function that returns an object with invoke; an arrow
\* function (new on it throws a TypeError).
JsMissing == {"undefined"}
JsObjects == {"initial", "emptyObject", "module"}
JsFunctions == {"class", "emptyClass", "factory", "arrow"}

isFunction(value) == value \in JsFunctions
isTruthy(value) == value \notin JsMissing

\* A source, by what it leaves in the bindings (lines 128-132): module.exports,
\* exports, Scrippet, defaultExport, invoke, window.Scrippet; redeclares: the
\* source declares class Scrippet or function invoke itself, next to the
\* loader's let of the same name.
Sources ==
  [moduleExports : {"initial", "undefined", "module", "class", "factory"},
   exports : {"initial", "undefined", "module"},
   Scrippet : {"undefined", "class"},
   defaultExport : {"undefined", "class", "module"},
   invoke : {"undefined", "factory"},
   windowScrippet : {"undefined", "class"},
   redeclares : BOOLEAN]

Untouched ==
  [moduleExports |-> "initial", exports |-> "initial", Scrippet |-> "undefined",
   defaultExport |-> "undefined", invoke |-> "undefined",
   windowScrippet |-> "undefined", redeclares |-> FALSE]

\* The return expression of the generated function, lines 134-139: the
\* first truthy operand of the chain; binding names the operand chosen.
resolveExport(source) ==
  IF isTruthy(source.moduleExports)
    THEN [binding |-> "module.exports", value |-> source.moduleExports]
  ELSE IF isTruthy(source.exports)
    THEN [binding |-> "exports", value |-> source.exports]
  ELSE IF isTruthy(source.Scrippet)
    THEN [binding |-> "Scrippet", value |-> source.Scrippet]
  ELSE IF isTruthy(source.defaultExport)
    THEN [binding |-> "defaultExport", value |-> source.defaultExport]
  ELSE IF isFunction(source.invoke)
    THEN [binding |-> "invoke", value |-> "module"]
  ELSE IF isFunction(source.windowScrippet)
    THEN [binding |-> "window.Scrippet", value |-> source.windowScrippet]
  ELSE [binding |-> "none", value |-> "undefined"]

\* new mod(plugin), line 145.
construct(value) ==
  CASE value = "class" -> "module"
    [] value = "emptyClass" -> "emptyObject"
    [] value = "factory" -> "module"
    [] OTHER -> "TypeError"

isScrippetModule(candidate) == candidate = "module"

\* loadScrippet(plugin, source): what it returns or throws.
loadScrippet(source) ==
  IF source.redeclares
  THEN [returned |-> FALSE, thrown |-> "SyntaxError", binding |-> "none"]
  ELSE LET mod == resolveExport(source)
           instance == IF isFunction(mod.value) THEN construct(mod.value) ELSE mod.value IN
       IF instance = "TypeError"
       THEN [returned |-> FALSE, thrown |-> "TypeError", binding |-> mod.binding]
       ELSE IF ~isScrippetModule(instance)
       THEN [returned |-> FALSE, thrown |-> "Scrippet must expose invoke(plugin)",
             binding |-> mod.binding]
       ELSE [returned |-> TRUE, thrown |-> "", binding |-> mod.binding]

NoLoad == [source |-> Untouched, applied |-> FALSE,
           result |-> [returned |-> FALSE, thrown |-> "", binding |-> "none"]]

\* ------------------------------------------------------------ variables

VARIABLES
  files, watching, initialized,
  commands, instanceCache, descriptorsByPath, descriptorsById,
  reloadTimer, reloadDelay, changeBurst, lastChangeAt,
  pendingChanges, settingsDirty, errorMap, duplicates, lastScan,
  scriptStates, procs, now,
  confirmBeforeFirstRun, trustedFolders, runStartupOnLoad, execs, hLast,
  hAccepted, hChanges, hUserOps, hReloads,
  hSuggestion, hWide, hTight, hFiredAfter, hPendingSince,
  hSource, hStale, hSeen, hRunSaves, hBatch, hLoad

vars == <<files, watching, initialized,
  commands, instanceCache, descriptorsByPath, descriptorsById,
  reloadTimer, reloadDelay, changeBurst, lastChangeAt,
  pendingChanges, settingsDirty, errorMap, duplicates, lastScan,
  scriptStates, procs, now,
  confirmBeforeFirstRun, trustedFolders, runStartupOnLoad, execs, hLast,
  hAccepted, hChanges, hUserOps, hReloads,
  hSuggestion, hWide, hTight, hFiredAfter, hPendingSince,
  hSource, hStale, hSeen, hRunSaves, hBatch, hLoad>>

hTimed == <<hWide, hTight, hFiredAfter, hPendingSince>>
hUser == <<hChanges, hUserOps>>
\* The settings the manager reads besides the preferences.
settings == <<confirmBeforeFirstRun, trustedFolders, runStartupOnLoad>>
invocations == <<settings, execs, hLast, hLoad>>

createPendingChanges == [changed |-> <<>>, deleted |-> <<>>, full |-> FALSE]

EmptyScan == [commands |-> {}, startup |-> {}, errors |-> {}, duplicates |-> {}]

\* The manager's fields as one record, for the operators below.
Mgr ==
  [commands |-> commands, instanceCache |-> instanceCache,
   descriptorsByPath |-> descriptorsByPath, descriptorsById |-> descriptorsById,
   reloadTimer |-> reloadTimer, reloadDelay |-> reloadDelay,
   changeBurst |-> changeBurst, lastChangeAt |-> lastChangeAt,
   pendingChanges |-> pendingChanges, settingsDirty |-> settingsDirty,
   errorMap |-> errorMap, duplicates |-> duplicates, lastScan |-> lastScan,
   scriptStates |-> scriptStates, hSuggestion |-> hSuggestion,
   hSource |-> hSource, hStale |-> hStale, hSeen |-> hSeen, hRunSaves |-> hRunSaves]

Commit(m) ==
  /\ commands' = m.commands
  /\ instanceCache' = m.instanceCache
  /\ descriptorsByPath' = m.descriptorsByPath
  /\ descriptorsById' = m.descriptorsById
  /\ reloadTimer' = m.reloadTimer
  /\ reloadDelay' = m.reloadDelay
  /\ changeBurst' = m.changeBurst
  /\ lastChangeAt' = m.lastChangeAt
  /\ pendingChanges' = m.pendingChanges
  /\ settingsDirty' = m.settingsDirty
  /\ errorMap' = m.errorMap
  /\ duplicates' = m.duplicates
  /\ lastScan' = m.lastScan
  /\ scriptStates' = m.scriptStates
  /\ hSuggestion' = m.hSuggestion
  /\ hSource' = m.hSource
  /\ hStale' = m.hStale
  /\ hSeen' = m.hSeen
  /\ hRunSaves' = m.hRunSaves

\* ------------------------------------------------- registry operators

\* scriptStates is a plain object (Object.assign({}, DEFAULT_SETTINGS, data),
\* data parsed from JSON): a lookup by key also finds the properties it
\* inherits from Object.prototype. Of their names only "constructor" is a
\* slug (lower case letters, digits and hyphens), so only it can be an id.
ObjectPrototypeKeys == {"constructor"}

\* if (scriptStates[key]): an own record, or an inherited property.
Truthy(states, key) == Has(states, key) \/ key \in ObjectPrototypeKeys

\* The legacy entry under the path consulted before the entry under the id.
ensurePreferenceLegacyFirst(m, id, path) ==
  IF Has(m.scriptStates, path)
  THEN [m EXCEPT !.scriptStates = Put(Del(@, path), id, @[path]),
                 !.settingsDirty = TRUE]
  ELSE IF Has(m.scriptStates, id) THEN m
  ELSE [m EXCEPT !.scriptStates = Put(@, id, [enabled |-> TRUE, hasRun |-> FALSE]),
                 !.settingsDirty = TRUE]

ensurePreference(m, id, path) ==
  IF Truthy(m.scriptStates, id) THEN m
  ELSE IF Truthy(m.scriptStates, path)
    THEN [m EXCEPT !.scriptStates = Put(Del(@, path), id, @[path]),
                   !.settingsDirty = TRUE]
    ELSE [m EXCEPT !.scriptStates = Put(@, id, [enabled |-> TRUE, hasRun |-> FALSE]),
                   !.settingsDirty = TRUE]

registerCommand(m, descriptor) ==
  [m EXCEPT !.commands = @ \cup {descriptor.id}]

unregisterCommand(m, id) ==
  [m EXCEPT !.commands = @ \ {id}]

\* The published scan: the arrays of the code, sorted by name or path, are
\* sets here (the contents decide the order).
updateLastScan(m) ==
  [m EXCEPT !.lastScan =
    [commands |-> {d \in Values(m.descriptorsByPath) : d.kind = "command"},
     startup |-> {d \in Values(m.descriptorsByPath) : d.kind = "startup"},
     errors |-> {[path |-> p, message |-> m.errorMap[p]] : p \in DOMAIN m.errorMap},
     duplicates |-> Values(m.duplicates)]]

recordLoadError(m, path, message) ==
  updateLastScan([m EXCEPT !.errorMap = Put(@, path, message)])

storeDescriptor(m, descriptor) ==
  [m EXCEPT !.descriptorsByPath = Put(@, descriptor.path, descriptor),
            !.descriptorsById = Put(@, descriptor.id, descriptor)]

\* The descriptor removed together with its preference record.
removeDescriptorAndPreference(m, path) ==
  IF ~Has(m.descriptorsByPath, path) THEN m
  ELSE LET descriptor == m.descriptorsByPath[path] IN
    [unregisterCommand(m, descriptor.id) EXCEPT
       !.descriptorsByPath = Del(@, path),
       !.descriptorsById = Del(@, descriptor.id),
       !.instanceCache = @ \ {descriptor.id},
       !.errorMap = Del(@, path),
       !.duplicates = Del(@, path),
       !.scriptStates = Del(@, descriptor.id)]

\* The descriptor removed with its command left registered.
removeDescriptorKeepingCommand(m, path) ==
  IF ~Has(m.descriptorsByPath, path) THEN m
  ELSE LET descriptor == m.descriptorsByPath[path] IN
    [m EXCEPT !.descriptorsByPath = Del(@, path),
              !.descriptorsById = Del(@, descriptor.id),
              !.instanceCache = @ \ {descriptor.id},
              !.errorMap = Del(@, path),
              !.duplicates = Del(@, path)]

removeDescriptor(m, path) ==
  IF ~Has(m.descriptorsByPath, path) THEN m
  ELSE LET descriptor == m.descriptorsByPath[path] IN
    [m EXCEPT !.descriptorsByPath = Del(@, path),
              !.descriptorsById = Del(@, descriptor.id),
              !.instanceCache = @ \ {descriptor.id},
              !.commands = @ \ {descriptor.id},
              !.errorMap = Del(@, path),
              !.duplicates = Del(@, path)]

\* History: hStale holds the cached instances compiled from a file whose
\* content has changed since, hSeen those of them whose file a reload or a
\* flush has read after the change.
markStale(m, edited) ==
  LET older == {id \in m.instanceCache : m.hSource[id].path \in edited} IN
  [m EXCEPT !.hStale = @ \cup older, !.hSeen = @ \ older]

sawPath(m, path) ==
  [m EXCEPT !.hSeen = @ \cup {id \in m.hStale \cap m.instanceCache : m.hSource[id].path = path}]

RECURSIVE SuggestFrom(_, _, _)
SuggestFrom(baseId, counter, taken) ==
  LET attempt == baseId \o "-" \o ToString(counter) IN
  IF attempt \in taken THEN SuggestFrom(baseId, counter + 1, taken) ELSE attempt

\* Suggestions numbered from 3.
generateIdSuggestionFromThree(m, baseId, processedIds) ==
  SuggestFrom(baseId, 3, DOMAIN m.descriptorsById \cup processedIds)

generateIdSuggestion(m, baseId, processedIds) ==
  LET taken == DOMAIN m.descriptorsById \cup processedIds IN
  IF baseId \in taken THEN SuggestFrom(baseId, 2, taken) ELSE baseId

\* ------------------------------------------------------------ processes

\* History: a batch of startup scrippets (executeStartup): whether
\* run-at-launch was on when it started, the ids it was given, in order,
\* what it did with each descriptor it reached (ran: it went on to load and
\* invoke it; enabled, hasRun: the preference it found), the ids whose
\* script threw, the ids for which it recorded and reported a failure, and
\* how far it is (state).
NoBatch ==
  [on |-> FALSE, list |-> <<>>, handled |-> <<>>, threw |-> {}, failed |-> {},
   state |-> "none"]

\* One asynchronous operation in flight: where it is suspended (pc) and its
\* local variables.
IdleProc ==
  [pc |-> "idle", op |-> "none", path |-> "", existing |-> {}, rest |-> <<>>,
   previousId |-> "", newId |-> "", updated |-> "",
   commandFiles |-> {}, startupFiles |-> {}, inflight |-> {}, stage |-> "",
   processedIds |-> {}, errors |-> {}, dups |-> {},
   commandDescriptors |-> {}, startupDescriptors |-> {},
   runStartup |-> FALSE, startup |-> <<>>, startupUpdated |-> FALSE,
   hadPrefs |-> FALSE, value |-> FALSE, rejected |-> FALSE,
   hSince |-> 0, hListed |-> {}, hRead |-> EmptyMap, hFirst |-> EmptyMap,
   hBatch |-> NoBatch]

\* One invocation (executeById): where it is suspended, the descriptor it
\* holds, and what it did (instance: while invoke runs, the invocation whose
\* load compiled the instance; notices: the notices it showed; outcome: how
\* it ended).
IdleExec ==
  [pc |-> "idle", id |-> "", path |-> "", instance |-> 0,
   notices |-> <<>>, outcome |-> ""]

FinishedExec == [IdleExec EXCEPT !.pc = "finished"]

\* History: the last step of an invocation (e: the invocation; answer: the
\* answer the first-run dialog got in it; thrown: what the load or invoke
\* threw in it; notices, outcome: what the invocation showed and how it
\* ended, when it ended in that step).
NoStep ==
  [e |-> 0, id |-> "", answer |-> "", thrown |-> "", notices |-> <<>>, outcome |-> ""]

ExecIds == 1..MaxInvocations

ProcIds == 1..MaxProcs
Busy == {i \in ProcIds : procs[i].pc # "idle"}
FreeSlot == IF ProcIds \ Busy = {} THEN 0 ELSE CHOOSE i \in ProcIds \ Busy : \A j \in ProcIds \ Busy : i <= j

\* flushSettings up to its await: whether a save was started.
flushSettings(m) == [m EXCEPT !.settingsDirty = FALSE]

newDescriptor(m, id, path, kind) ==
  [id |-> id, name |-> toDisplayName(path), path |-> path, kind |-> kind,
   enabled |-> m.scriptStates[id].enabled]

\* tryBuildDescriptor from the completion of its read: the file's content at
\* that moment (DOMAIN fs lacks the path when the file is gone: read throws).
tryBuildDescriptor(m, p, path, kind, fs) ==
  IF ~Has(fs, path)
  THEN [m |-> m, p |-> [p EXCEPT !.errors = @ \cup {[path |-> path, message |-> "read failed"]}]]
  ELSE LET id == toIdentifier(path, fs[path])
           q == [p EXCEPT !.hRead = Put(@, path, id)] IN
    IF id = ""
    THEN [m |-> m, p |-> [q EXCEPT !.errors = @ \cup {[path |-> path, message |-> "Unable to derive scrippet id"]}]]
    ELSE IF id \in p.processedIds
    THEN LET suggestion == generateIdSuggestion(m, id, p.processedIds) IN
      [m |-> [m EXCEPT !.hSuggestion =
                {[suggestion |-> suggestion, claimed |-> p.processedIds,
                  held |-> DOMAIN m.descriptorsById \cup {d.id : d \in Values(m.descriptorsByPath)}]}],
       p |-> [q EXCEPT !.errors = @ \cup {[path |-> path, message |-> "Duplicate scrippet id"]},
                       !.dups = @ \cup {[path |-> path, id |-> id, suggestion |-> suggestion]}]]
    ELSE LET m1 == ensurePreference(m, id, path)
             descriptor == newDescriptor(m1, id, path, kind) IN
      [m |-> m1,
       p |-> [q EXCEPT !.processedIds = @ \cup {id},
                       !.hFirst = Put(@, id, path),
                       !.commandDescriptors = IF kind = "command" THEN @ \cup {descriptor} ELSE @,
                       !.startupDescriptors = IF kind = "startup" THEN @ \cup {descriptor} ELSE @]]

\* performFullReload, lines 175-182: everything before the scan's first await.
fullReloadBegin(m) ==
  [m EXCEPT !.commands = {}, !.instanceCache = {},
            !.descriptorsByPath = EmptyMap, !.descriptorsById = EmptyMap,
            !.errorMap = EmptyMap, !.duplicates = EmptyMap]

\* The descriptors stored in the id map only.
storeAllById(m, ds) ==
  [m EXCEPT !.descriptorsById =
              [x \in DOMAIN @ \cup {d.id : d \in ds} |->
                 IF \E d \in ds : d.id = x THEN CHOOSE d \in ds : d.id = x ELSE @[x]]]

storeAll(m, ds) ==
  [m EXCEPT !.descriptorsByPath =
              [x \in DOMAIN @ \cup {d.path : d \in ds} |->
                 IF \E d \in ds : d.path = x THEN CHOOSE d \in ds : d.path = x ELSE @[x]],
            !.descriptorsById =
              [x \in DOMAIN @ \cup {d.id : d \in ds} |->
                 IF \E d \in ds : d.id = x THEN CHOOSE d \in ds : d.id = x ELSE @[x]]]

\* ------------------------------------------------------ startup batch

\* localeCompare on the display names of the model.
NameRank(name) ==
  CASE name = "A.Js" -> 1
    [] name = "B.Js" -> 2
    [] name = "S.Js" -> 3
    [] name = "T.Js" -> 4
    [] OTHER -> 5

\* The descriptors of a published list, in the order updateLastScan gives it.
RECURSIVE sortByName(_)
sortByName(ds) ==
  IF ds = {} THEN <<>>
  ELSE LET first == CHOOSE d \in ds : \A o \in ds : NameRank(d.name) <= NameRank(o.name) IN
    <<first>> \o sortByName(ds \ {first})

\* executeStartup, after its loop: the save, if a preference was updated.
startupEnd(m, p) ==
  IF p.startupUpdated /\ m.settingsDirty
  THEN [m |-> flushSettings(m), p |-> [p EXCEPT !.pc = "startupSaving"]]
  ELSE [m |-> m, p |-> [p EXCEPT !.pc = "done", !.hBatch.state = "done"]]

\* No startup scrippet is skipped.
startupSkipsNone(m, descriptor) == FALSE

\* executeStartup, lines 326-327: the script is skipped.
startupSkips(m, descriptor) ==
  Has(m.scriptStates, descriptor.id) /\ ~m.scriptStates[descriptor.id].enabled

\* The loop of executeStartup from the head of the remaining descriptors to
\* the next await: the read of loadDescriptorInstance, or invoke on the
\* cached instance.
RECURSIVE startupNext(_, _)
startupNext(m, p) ==
  IF p.startup = <<>> THEN startupEnd(m, p)
  ELSE LET descriptor == Head(p.startup)
           hadPrefs == Has(m.scriptStates, descriptor.id)
           entry == [id |-> descriptor.id, ran |-> ~startupSkips(m, descriptor),
                     enabled |-> IF hadPrefs THEN m.scriptStates[descriptor.id].enabled ELSE TRUE,
                     hasRun |-> IF hadPrefs THEN m.scriptStates[descriptor.id].hasRun ELSE FALSE]
           q == [p EXCEPT !.hBatch.handled = Append(@, entry)] IN
    IF startupSkips(m, descriptor) THEN startupNext(m, [q EXCEPT !.startup = Tail(@)])
    ELSE [m |-> m,
          p |-> [q EXCEPT !.hadPrefs = hadPrefs,
                          !.pc = IF descriptor.id \in m.instanceCache
                                 THEN "startupInvoke" ELSE "startupLoad"]]

\* executeStartup's catch block, lines 343-349, for the value thrown:
\* recordLoadError reads .message of it, which throws a TypeError out of
\* the catch block, and of executeStartup, when the value is null or
\* undefined.
startupFailed(m, p, thrown) ==
  LET descriptor == Head(p.startup)
      q == [p EXCEPT !.hBatch.threw = @ \cup {descriptor.id}] IN
  IF thrown = "nullish"
  THEN [m |-> m, p |-> [q EXCEPT !.pc = "done", !.rejected = TRUE, !.hBatch.state = "rejected"]]
  ELSE startupNext(recordLoadError(m, descriptor.path, "load failed"),
                   [q EXCEPT !.startup = Tail(@), !.hBatch.failed = @ \cup {descriptor.id}])

\* loadDescriptorInstance in executeStartup, from the completion of its
\* read: result is what the script's top-level code does in loadScrippet.
startupLoaded(m, p, i, fs, result) ==
  LET descriptor == Head(p.startup) IN
  IF ~Has(fs, descriptor.path) THEN startupFailed(m, p, "Error")
  ELSE IF result # "ok" THEN startupFailed(m, p, result)
  ELSE [m |-> updateLastScan([m EXCEPT !.instanceCache = @ \cup {descriptor.id},
                                       !.errorMap = Del(@, descriptor.path),
                                       !.hSource = Put(@, descriptor.id,
                                                       [path |-> descriptor.path, by |-> 0 - i]),
                                       !.hStale = @ \ {descriptor.id},
                                       !.hSeen = @ \ {descriptor.id}]),
        p |-> [p EXCEPT !.pc = "startupInvoke"]]

\* executeStartup, lines 330-342: invoke has settled.
startupInvoked(m, p, result) ==
  IF result # "ok" THEN startupFailed(m, p, result)
  ELSE LET descriptor == Head(p.startup)
           m1 == IF ~p.hadPrefs
                 THEN [m EXCEPT !.scriptStates =
                                  Put(@, descriptor.id, [enabled |-> TRUE, hasRun |-> TRUE]),
                                !.settingsDirty = TRUE]
                 ELSE IF ~m.scriptStates[descriptor.id].hasRun
                   THEN [m EXCEPT !.scriptStates[descriptor.id].hasRun = TRUE,
                                  !.settingsDirty = TRUE]
                 ELSE m IN
    startupNext(m1, [p EXCEPT !.startup = Tail(@),
                              !.startupUpdated = @ \/ ~p.hadPrefs
                                                   \/ ~m.scriptStates[descriptor.id].hasRun])

\* executeStartup(descriptors) up to its first await.
executeStartup(m, p, descriptors) ==
  startupNext(m, [p EXCEPT !.startup = descriptors, !.startupUpdated = FALSE,
                           !.hBatch = [on |-> runStartupOnLoad,
                                       list |-> [k \in 1..Len(descriptors) |-> descriptors[k].id],
                                       handled |-> <<>>, threw |-> {}, failed |-> {},
                                       state |-> "running"]])

\* performFullReload, lines 204-209: after the save.
fullReloadEnd(m, p) ==
  LET m1 == [m EXCEPT !.pendingChanges = createPendingChanges] IN
  IF p.runStartup THEN executeStartup(m1, p, sortByName(m1.lastScan.startup))
  ELSE [m |-> m1, p |-> [p EXCEPT !.pc = "done"]]

\* performFullReload, lines 184-203: from the scan's result to the save.
fullReloadStore(m, p) ==
  LET m1 == storeAll(storeAll(m, p.commandDescriptors), p.startupDescriptors)
      m2 == [m1 EXCEPT !.errorMap = [x \in {e.path : e \in p.errors} |->
                                       (CHOOSE e \in p.errors : e.path = x).message],
                       !.duplicates = [x \in {d.path : d \in p.dups} |->
                                       CHOOSE d \in p.dups : d.path = x]]
      m3 == updateLastScan(m2)
      m4 == [m3 EXCEPT !.commands = @ \cup {d.id : d \in {c \in m3.lastScan.commands : c.enabled}}] IN
  IF m4.settingsDirty
  THEN [m |-> flushSettings(m4), p |-> [p EXCEPT !.pc = "reloadSaving"]]
  ELSE fullReloadEnd(m4, p)

\* scanScrippets after a read completed or the listings returned: the next
\* batch of reads, or the end of the scan.
scanAdvance(m, p) ==
  IF p.inflight # {} THEN [m |-> m, p |-> p]
  ELSE IF p.stage = "list" /\ p.commandFiles # {}
    THEN [m |-> m, p |-> [p EXCEPT !.stage = "command", !.inflight = p.commandFiles, !.pc = "reading"]]
  ELSE IF p.stage \in {"list", "command"} /\ p.startupFiles # {}
    THEN [m |-> m, p |-> [p EXCEPT !.stage = "startup", !.inflight = p.startupFiles, !.pc = "reading"]]
  ELSE fullReloadStore(m, p)

\* ------------------------------------------------- incremental update

\* processPendingChanges / renameScrippetId, their last lines: the save,
\* then updateLastScan and notify.
flushEnd(m, p) ==
  IF m.settingsDirty
  THEN [m |-> flushSettings(m), p |-> [p EXCEPT !.pc = "flushSaving", !.path = "", !.existing = {}]]
  ELSE [m |-> updateLastScan(m), p |-> [p EXCEPT !.pc = "done"]]

\* The loop over the updates of processPendingChanges, up to the next read:
\* refreshDescriptor's lines 604-616 run without suspension.
RECURSIVE runUpdates(_, _)
runUpdates(m, p) ==
  IF p.rest = <<>> THEN flushEnd(m, p)
  ELSE LET path == Head(p.rest) IN
    IF ~isAllowedExtension(path) \/ resolveKind(path) = "none"
    THEN runUpdates(removeDescriptor(m, path), [p EXCEPT !.rest = Tail(@)])
    ELSE [m |-> m,
          p |-> [p EXCEPT !.pc = "refreshRead", !.path = path, !.rest = Tail(@),
                          !.existing = IF Has(m.descriptorsByPath, path)
                                       THEN {m.descriptorsByPath[path]} ELSE {}]]

\* refreshDescriptor's catch block, lines 645-652.
refreshFailed(m, path, existing, message) ==
  LET m1 == [m EXCEPT !.descriptorsByPath = Del(@, path)]
      m2 == IF existing = {} THEN m1
            ELSE LET old == CHOOSE d \in existing : TRUE IN
              [m1 EXCEPT !.descriptorsById = Del(@, old.id),
                         !.instanceCache = @ \ {old.id},
                         !.commands = @ \ {old.id}] IN
  [m2 EXCEPT !.errorMap = Put(@, path, message), !.duplicates = Del(@, path)]

\* refreshDescriptor from the completion of createDescriptor's read,
\* lines 618-653 (createDescriptor: lines 668-688).
refreshDescriptor(m, path, existing, fs) ==
  IF ~Has(fs, path) THEN refreshFailed(m, path, existing, "read failed")
  ELSE LET id == toIdentifier(path, fs[path]) IN
    IF id = "" THEN refreshFailed(m, path, existing, "Unable to derive scrippet id")
    ELSE LET
      m1 == ensurePreference(m, id, path)
      descriptor == newDescriptor(m1, id, path, resolveKind(path))
      m2 == IF existing # {} /\ (CHOOSE d \in existing : TRUE).id # id
            THEN LET old == CHOOSE d \in existing : TRUE IN
              [m1 EXCEPT !.descriptorsById = Del(@, old.id),
                         !.instanceCache = @ \ {old.id},
                         !.commands = @ \ {old.id}]
            ELSE m1
    IN
      IF Has(m2.descriptorsById, id) /\ m2.descriptorsById[id].path # path
      THEN LET suggestion == generateIdSuggestion(m2, id, {}) IN
        [m2 EXCEPT !.descriptorsByPath = Del(@, path),
                   !.errorMap = Put(@, path, "Duplicate scrippet id"),
                   !.duplicates = Put(@, path, [path |-> path, id |-> id, suggestion |-> suggestion]),
                   !.hSuggestion =
                     {[suggestion |-> suggestion, claimed |-> {},
                       held |-> DOMAIN m2.descriptorsById
                                \cup {d.id : d \in Values(Del(m2.descriptorsByPath, path))}]}]
      ELSE LET m3 == storeDescriptor(m2, descriptor) IN
        [m3 EXCEPT !.instanceCache = @ \ {id},
                   !.errorMap = Del(@, path),
                   !.duplicates = Del(@, path),
                   !.commands = IF descriptor.kind = "command"
                                THEN (IF descriptor.enabled THEN @ \cup {id} ELSE @ \ {id})
                                ELSE @]

RECURSIVE removeAll(_, _)
removeAll(m, paths) ==
  IF paths = <<>> THEN m ELSE removeAll(removeDescriptor(m, Head(paths)), Tail(paths))

\* processPendingChanges up to its first suspension.
processPendingChanges(m) ==
  LET changes == m.pendingChanges
      m1 == [m EXCEPT !.pendingChanges = createPendingChanges] IN
  IF changes.full
  THEN [m |-> fullReloadBegin(m1),
        p |-> [IdleProc EXCEPT !.pc = "listBase", !.op = "flush", !.stage = "list"]]
  ELSE runUpdates(removeAll(m1, changes.deleted),
                  [IdleProc EXCEPT !.op = "flush", !.rest = changes.changed])

\* ---------------------------------------------------- change coalescer

SetAdd(s, x) == IF x \in SeqToSet(s) THEN s ELSE Append(s, x)

\* A deletion that leaves the path in the changed set.
registerChangeKeepingChanged(m, change) ==
  IF change.type = "full"
  THEN [m EXCEPT !.pendingChanges = [changed |-> <<>>, deleted |-> <<>>, full |-> TRUE]]
  ELSE IF m.pendingChanges.full THEN m
  ELSE IF change.type = "deleted"
  THEN [m EXCEPT !.pendingChanges.deleted = SetAdd(@, change.path)]
  ELSE IF change.path \in SeqToSet(m.pendingChanges.deleted) THEN m
  ELSE [m EXCEPT !.pendingChanges.changed = SetAdd(@, change.path)]

\* The full flag does not stop later events from being recorded.
registerChangeAfterFull(m, change) ==
  IF change.type = "full"
  THEN [m EXCEPT !.pendingChanges = [changed |-> <<>>, deleted |-> <<>>, full |-> TRUE]]
  ELSE IF change.type = "deleted"
  THEN [m EXCEPT !.pendingChanges.deleted = SetAdd(@, change.path),
                 !.pendingChanges.changed = Without(@, change.path)]
  ELSE IF change.path \in SeqToSet(m.pendingChanges.deleted) THEN m
  ELSE [m EXCEPT !.pendingChanges.changed = SetAdd(@, change.path)]

registerChange(m, change) ==
  IF change.type = "full"
  THEN [m EXCEPT !.pendingChanges = [changed |-> <<>>, deleted |-> <<>>, full |-> TRUE]]
  ELSE IF m.pendingChanges.full THEN m
  ELSE IF change.type = "deleted"
  THEN [m EXCEPT !.pendingChanges.deleted = SetAdd(@, change.path),
                 !.pendingChanges.changed = Without(@, change.path)]
  ELSE IF change.path \in SeqToSet(m.pendingChanges.deleted) THEN m
  ELSE [m EXCEPT !.pendingChanges.changed = SetAdd(@, change.path)]

Min(a, b) == IF a < b THEN a ELSE b

\* A delay that grows from zero instead of from the base delay.
DelayWithoutBase(burst) == Min(maxReloadDelay, burst * BurstStep)

nextReloadDelay(burst) == Min(maxReloadDelay, baseReloadDelay + burst * BurstStep)

\* queueChange at instant t: the pending set, the adaptive delay, the timer
\* re-armed (reloadTimer holds the instant at which it fires).
queueChange(m, change, t) ==
  LET m1 == registerChange(m, change)
      inBurst == t - m1.lastChangeAt < BurstWindow
      burst == IF inBurst THEN m1.changeBurst + 1 ELSE 1
      delay == IF inBurst THEN nextReloadDelay(burst) ELSE baseReloadDelay IN
  [m1 EXCEPT !.changeBurst = burst, !.reloadDelay = delay,
             !.lastChangeAt = t, !.reloadTimer = t + delay]

\* The timer's callback, lines 537-542.
timerCallback(m) ==
  processPendingChanges([m EXCEPT !.reloadTimer = NoTimer, !.changeBurst = 0,
                                  !.reloadDelay = baseReloadDelay])

\* --------------------------------------------------------------- state

StoreDup == ("a.js" :> "Foo") @@ ("b.js" :> "Foo")
StoreTri == ("a.js" :> "Foo") @@ ("b.js" :> "foo-2") @@ ("startup/s.js" :> "foo-2")
StorePlain == ("a.js" :> "") @@ ("startup/s.js" :> "")

InitialStores == {StoreDup, StoreTri, StorePlain}

InitManager ==
  /\ watching = FALSE
  /\ initialized = FALSE
  /\ commands = {}
  /\ instanceCache = {}
  /\ descriptorsByPath = EmptyMap
  /\ descriptorsById = EmptyMap
  /\ reloadTimer = NoTimer
  /\ reloadDelay = baseReloadDelay
  /\ changeBurst = 0
  /\ lastChangeAt = 0
  /\ pendingChanges = createPendingChanges
  /\ settingsDirty = FALSE
  /\ errorMap = EmptyMap
  /\ duplicates = EmptyMap
  /\ lastScan = EmptyScan
  /\ procs = [i \in ProcIds |-> IdleProc]
  /\ execs = [e \in ExecIds |-> IdleExec]
  /\ hLast = NoStep
  /\ now = StartTime
  /\ hSource = EmptyMap
  /\ hStale = {}
  /\ hSeen = {}
  /\ hRunSaves = EmptyMap
  /\ hBatch = NoBatch
  /\ hLoad = NoLoad
  /\ hAccepted = {}
  /\ hChanges = 0
  /\ hUserOps = 0
  /\ hReloads = <<>>
  /\ hSuggestion = {}
  /\ hWide = 0
  /\ hTight = 0
  /\ hFiredAfter = -1
  /\ hPendingSince = -1

Init ==
  /\ files \in InitialStores
  /\ scriptStates = EmptyMap
  /\ confirmBeforeFirstRun = TRUE
  /\ trustedFolders = {}
  /\ runStartupOnLoad = FALSE
  /\ InitManager

Settle(p) == IF p.pc = "done" THEN IdleProc ELSE p

Push(s, x) == IF Len(s) < 2 THEN Append(s, x) ELSE <<s[2], x>>

\* What a full reload that just ended leaves for the claims about scans.
ReloadRecord(p, m) ==
  [scan |-> m.lastScan,
   result |-> [commands |-> p.commandDescriptors, startup |-> p.startupDescriptors,
               errors |-> p.errors, duplicates |-> p.dups],
   since |-> p.hSince,
   listed |-> p.commandFiles \cup p.startupFiles, read |-> p.hRead, first |-> p.hFirst]

\* Where executeStartup is suspended.
StartupPcs == {"startupLoad", "startupInvoke", "startupSaving"}

\* initialize() returns from its reload and goes on to registerWatchers.
InitializeReturns(p) == p.pc = "done" /\ p.op = "initialize" /\ ~p.rejected

\* One step of process i with outcome r, for the steps of a full reload;
\* seen: the accepted changes whose outcome this step has read from storage.
ScanStep(i, r, seen) ==
  /\ Commit(r.m)
  /\ procs' = [procs EXCEPT ![i] = Settle(r.p)]
  /\ hAccepted' = hAccepted \ seen
  /\ watching' = (watching \/ InitializeReturns(r.p))
  /\ hReloads' = IF r.p.pc \in {"done"} \cup StartupPcs
                 THEN Push(hReloads, ReloadRecord(r.p, r.m)) ELSE hReloads
  /\ hBatch' = IF r.p.hBatch.state # "none" THEN r.p.hBatch ELSE hBatch
  /\ UNCHANGED <<invocations, files, initialized, now, hUser, hTimed>>

\* One step of process i with outcome r, for the steps of a startup batch.
StartupStep(i, r) ==
  /\ Commit(r.m)
  /\ procs' = [procs EXCEPT ![i] = Settle(r.p)]
  /\ watching' = (watching \/ InitializeReturns(r.p))
  /\ hBatch' = IF r.p.hBatch.state # "none" THEN r.p.hBatch ELSE hBatch
  /\ UNCHANGED <<invocations, files, initialized, now, hAccepted, hReloads, hUser, hTimed>>

\* One step of process i with outcome r, for the other operations.
ProcStep(i, r) ==
  /\ Commit(r.m)
  /\ procs' = [procs EXCEPT ![i] = Settle(r.p)]
  /\ UNCHANGED <<invocations, hBatch, files, watching, initialized, now, hAccepted, hReloads, hUser, hTimed>>

\* ------------------------------------------------------- full reload

\* initialize(): the folders are ensured, then the first full reload starts.
Initialize ==
  /\ ~initialized
  /\ initialized' = TRUE
  /\ Commit(fullReloadBegin(Mgr))
  /\ procs' = [procs EXCEPT ![1] =
       [IdleProc EXCEPT !.pc = "listBase", !.op = "initialize", !.stage = "list",
                        !.runStartup = runStartupOnLoad, !.hSince = hChanges]]
  /\ UNCHANGED <<invocations, hBatch, files, watching, now, hAccepted, hReloads, hUser, hTimed>>

\* reload(): the settings tab's button, the add-scrippet dialog.
ReloadRequested ==
  /\ watching
  /\ FreeSlot # 0
  /\ Commit(fullReloadBegin(Mgr))
  /\ procs' = [procs EXCEPT ![FreeSlot] =
       [IdleProc EXCEPT !.pc = "listBase", !.op = "reload", !.stage = "list", !.hSince = hChanges]]
  /\ hUserOps' = hUserOps + 1
  /\ UNCHANGED <<invocations, hBatch, files, watching, initialized, now, hAccepted, hReloads, hChanges, hTimed>>

\* adapter.list(baseFolder) returns.
ListBase(i) ==
  /\ procs[i].pc = "listBase"
  /\ ScanStep(i, [m |-> Mgr,
                  p |-> [procs[i] EXCEPT !.pc = "listStartup",
                                         !.commandFiles = CommandPaths \cap DOMAIN files]],
              hAccepted)

\* adapter.list(startupFolder) returns; the reads of the command files start.
ListStartup(i) ==
  /\ procs[i].pc = "listStartup"
  /\ ScanStep(i, scanAdvance(Mgr, [procs[i] EXCEPT !.startupFiles = StartupPaths \cap DOMAIN files]),
              StartupPaths \ DOMAIN files)

\* The read of one file of the scan completes.
ReadDone(i, path) ==
  /\ procs[i].pc = "reading"
  /\ path \in procs[i].inflight
  /\ LET r == tryBuildDescriptor(sawPath(Mgr, path), [procs[i] EXCEPT !.inflight = @ \ {path}],
                                 path, procs[i].stage, files) IN
     ScanStep(i, scanAdvance(r.m, r.p), {path})

\* saveSettings of performFullReload's flushSettings returns.
ReloadSaved(i) ==
  /\ procs[i].pc = "reloadSaving"
  /\ ScanStep(i, fullReloadEnd(Mgr, procs[i]), {})

\* ------------------------------------------------------ startup batch

\* The read of loadDescriptorInstance in executeStartup completes.
StartupLoadDone(i, result) ==
  /\ procs[i].pc = "startupLoad"
  /\ StartupStep(i, startupLoaded(Mgr, procs[i], i, files, result))

\* The invoke of a startup scrippet settles.
StartupInvokeDone(i, result) ==
  /\ procs[i].pc = "startupInvoke"
  /\ StartupStep(i, startupInvoked(Mgr, procs[i], result))

\* saveSettings of executeStartup's flushSettings returns.
StartupSaved(i) ==
  /\ procs[i].pc = "startupSaving"
  /\ StartupStep(i, [m |-> Mgr, p |-> [procs[i] EXCEPT !.pc = "done", !.hBatch.state = "done"]])

\* The settings tab's "Run startup scripts at launch" toggle is switched
\* (settings-tab.ts, lines 148-160, the warning acknowledged): the setting
\* is stored and its save awaited.
SetRunAtLaunch(value) ==
  /\ watching
  /\ FreeSlot # 0
  /\ value # runStartupOnLoad
  /\ runStartupOnLoad' = value
  /\ procs' = [procs EXCEPT ![FreeSlot] =
       [IdleProc EXCEPT !.pc = "launchSaving", !.op = "launch", !.value = value]]
  /\ hUserOps' = hUserOps + 1
  /\ Commit(Mgr)
  /\ UNCHANGED <<confirmBeforeFirstRun, trustedFolders, execs, hLast, hLoad, hBatch, files, watching,
                 initialized, now, hAccepted, hReloads, hChanges, hTimed>>

\* The save of the toggle's handler returns: runStartupScripts() when the
\* toggle was switched on.
LaunchSaved(i) ==
  /\ procs[i].pc = "launchSaving"
  /\ StartupStep(i, IF procs[i].value
                    THEN executeStartup(Mgr, procs[i], sortByName(lastScan.startup))
                    ELSE [m |-> Mgr, p |-> [procs[i] EXCEPT !.pc = "done"]])

\* setFolder(newFolder), the folder given holding the same files: the
\* setting is stored and its save awaited.
SetFolderRequested ==
  /\ watching
  /\ FreeSlot # 0
  /\ procs' = [procs EXCEPT ![FreeSlot] =
       [IdleProc EXCEPT !.pc = "folderSaving", !.op = "setFolder"]]
  /\ hUserOps' = hUserOps + 1
  /\ Commit(Mgr)
  /\ UNCHANGED <<invocations, hBatch, files, watching, initialized, now, hAccepted, hReloads,
                 hChanges, hTimed>>

\* setFolder: the save and ensureFolders return; the full reload starts.
FolderSaved(i) ==
  /\ procs[i].pc = "folderSaving"
  /\ ProcStep(i, [m |-> fullReloadBegin(Mgr),
                  p |-> [procs[i] EXCEPT !.pc = "listBase", !.stage = "list",
                                         !.runStartup = runStartupOnLoad,
                                         !.hSince = hChanges]])

\* --------------------------------------------------------------- flush

\* The debounce timer fires (Spec abstracts from how long that takes).
TimerFires ==
  /\ reloadTimer # NoTimer
  /\ FreeSlot # 0
  /\ LET r == timerCallback(Mgr) IN
     /\ Commit(r.m)
     /\ procs' = [procs EXCEPT ![FreeSlot] = Settle([r.p EXCEPT !.hSince = hChanges])]
  /\ hAccepted' = {}
  /\ hWide' = Min(hWide + 1, 2)
  /\ hTight' = Min(hTight + 1, 2)
  /\ hFiredAfter' = now - lastChangeAt
  /\ hPendingSince' = -1
  /\ UNCHANGED <<invocations, hBatch, files, watching, initialized, now, hReloads, hUser>>

\* createDescriptor's read of refreshDescriptor completes.
RefreshReadDone(i) ==
  /\ procs[i].pc = "refreshRead"
  /\ ProcStep(i, runUpdates(refreshDescriptor(sawPath(Mgr, procs[i].path), procs[i].path,
                                              procs[i].existing, files),
                            procs[i]))

\* saveSettings of processPendingChanges' or renameScrippetId's flushSettings returns.
FlushSaved(i) ==
  /\ procs[i].pc = "flushSaving"
  /\ ProcStep(i, [m |-> updateLastScan(Mgr), p |-> [procs[i] EXCEPT !.pc = "done"]])

\* ------------------------------------------------------ user operations

\* The settings tab's "Rename to <suggestion>" on a listed duplicate:
\* renameScrippetId(duplicate.path, duplicate.id, duplicate.suggestion).
RenameRequested(dup) ==
  /\ watching
  /\ FreeSlot # 0
  /\ dup \in lastScan.duplicates
  /\ procs' = [procs EXCEPT ![FreeSlot] =
       [IdleProc EXCEPT !.pc = "renameRead", !.op = "rename", !.path = dup.path,
                        !.previousId = dup.id, !.newId = dup.suggestion]]
  /\ hUserOps' = hUserOps + 1
  /\ Commit(Mgr)
  /\ UNCHANGED <<invocations, hBatch, files, watching, initialized, now, hAccepted, hReloads, hChanges, hTimed>>

\* renameScrippetId: its read returns; the new source is computed.
RenameReadDone(i) ==
  /\ procs[i].pc = "renameRead"
  /\ LET p == procs[i] IN
     ProcStep(i, [m |-> Mgr,
       p |-> IF ~Has(files, p.path) THEN [p EXCEPT !.pc = "done"]
             ELSE IF updateScrippetId(files[p.path], p.newId) = files[p.path]
               THEN [p EXCEPT !.pc = "done"]
             ELSE [p EXCEPT !.pc = "renameWrite",
                            !.updated = updateScrippetId(files[p.path], p.newId)]])

\* renameScrippetId: adapter.write returns; lines 155-160 up to the read of
\* refreshDescriptor.
RenameWriteDone(i) ==
  /\ procs[i].pc = "renameWrite"
  /\ LET p == procs[i]
         m0 == markStale(Mgr, {p.path})
         m1 == IF p.previousId # p.newId
               THEN [m0 EXCEPT !.descriptorsById = Del(@, p.previousId),
                               !.instanceCache = @ \ {p.previousId}]
               ELSE m0
         r == runUpdates(m1, [p EXCEPT !.rest = <<p.path>>]) IN
     /\ Commit(r.m)
     /\ procs' = [procs EXCEPT ![i] = Settle(r.p)]
  /\ files' = Put(files, procs[i].path, procs[i].updated)
  /\ UNCHANGED <<invocations, hBatch, watching, initialized, now, hAccepted, hReloads, hUser, hTimed>>

\* toggleDescriptor(descriptor, enabled) on a descriptor of the published
\* scan, up to the await of its save.
toggleDescriptor(m, descriptor, enabled) ==
  LET m1 == ensurePreference(m, descriptor.id, descriptor.path)
      m2 == [m1 EXCEPT !.scriptStates[descriptor.id].enabled = enabled,
                       !.settingsDirty = TRUE]
      found == Has(m2.descriptorsById, descriptor.id)
      record == IF found THEN [m2.descriptorsById[descriptor.id] EXCEPT !.enabled = enabled]
                ELSE descriptor
      m3 == IF ~found THEN m2
            ELSE [m2 EXCEPT !.descriptorsById[descriptor.id] = record,
                            !.descriptorsByPath =
                              [x \in DOMAIN @ |->
                                 IF @[x] = m2.descriptorsById[descriptor.id] THEN record ELSE @[x]]]
      m4 == IF descriptor.kind # "command" THEN m3
            ELSE IF enabled THEN registerCommand(m3, record)
            ELSE unregisterCommand(m3, descriptor.id) IN
  flushSettings(updateLastScan(m4))

Toggle(descriptor) ==
  /\ watching
  /\ descriptor \in lastScan.commands \cup lastScan.startup
  /\ Commit(toggleDescriptor(Mgr, descriptor, ~descriptor.enabled))
  /\ hUserOps' = hUserOps + 1
  /\ UNCHANGED <<invocations, hBatch, files, watching, initialized, now, procs, hAccepted, hReloads, hChanges, hTimed>>

\* ----------------------------------------------------------- invocation

\* The managed root, and a file's path in the vault (the paths of the model
\* are relative to the root).
baseFolder == "scrippets"
vaultPath(path) == baseFolder \o "/" \o path

\* The values of the trustedFolders setting: none, the managed root, a
\* folder whose name is a prefix of the root's, the startup folder.
TrustedChoices == {{}, {"scrippets"}, {"scrip"}, {"scrippets/startup"}}

startsWith(string, prefix) ==
  Len(string) >= Len(prefix) /\ SubSeq(string, 1, Len(prefix)) = prefix

\* A folder contains every path that starts with its name.
isWithinByPrefix(path, folder) == path = folder \/ startsWith(path, folder)

isWithin(path, folder) == path = folder \/ startsWith(path, folder \o "/")

isTrusted(path) == \E folder \in trustedFolders : isWithin(vaultPath(path), folder)

shouldConfirmFirstRun(path) == confirmBeforeFirstRun /\ ~isTrusted(path)

\* What script code, run by the loader or by invoke, can do: complete, throw
\* an Error, throw a value without properties (throw null, Promise.reject()).
ScriptResults == {"ok", "Error", "nullish"}

Notify(x, notice) == [x EXCEPT !.notices = Append(@, notice)]

Finish(x, outcome) == [x EXCEPT !.pc = "finished", !.outcome = outcome, !.instance = 0]

\* executeDescriptor's first catch block, lines 233-239, for the value
\* thrown: reading .message of null or undefined throws a TypeError out of
\* the catch block, before recordLoadError's body runs.
loadFailed(m, x, thrown) ==
  IF thrown = "nullish" THEN [m |-> m, x |-> Finish(x, "rejected")]
  ELSE [m |-> recordLoadError(m, x.path, "load failed"),
        x |-> Finish(Notify(x, "failed to load"), "loadFailed")]

\* executeDescriptor's second catch block, lines 248-251.
invokeFailed(m, x, thrown) ==
  IF thrown = "nullish" THEN [m |-> m, x |-> Finish(x, "rejected")]
  ELSE [m |-> m, x |-> Finish(Notify(x, "failed"), "invokeFailed")]

\* hasRun marked and saved after every successful run.
markRunAlways(m, id) ==
  [m |-> [m EXCEPT !.scriptStates[id].hasRun = TRUE,
                   !.settingsDirty = FALSE,
                   !.hRunSaves = Put(@, id, (IF Has(@, id) THEN @[id] ELSE 0) + 1)],
   saving |-> TRUE]

\* executeDescriptor, lines 243-247, up to the await of the save (hRunSaves
\* counts the saves started here).
markRun(m, id) ==
  IF ~m.scriptStates[id].hasRun
  THEN [m |-> [m EXCEPT !.scriptStates[id].hasRun = TRUE,
                        !.settingsDirty = FALSE,
                        !.hRunSaves = Put(@, id, (IF Has(@, id) THEN @[id] ELSE 0) + 1)],
        saving |-> TRUE]
  ELSE [m |-> m, saving |-> FALSE]

\* invoke has returned without throwing.
invokeSucceeded(m, x) ==
  LET r == markRun(m, x.id) IN
  [m |-> r.m,
   x |-> IF r.saving THEN [x EXCEPT !.pc = "saving"] ELSE Finish(x, "succeeded")]

\* executeDescriptor, line 242: invoke is called on the loaded instance.
startInvoke(m, x, by) ==
  [m |-> m, x |-> [x EXCEPT !.pc = "invoking", !.instance = by]]

\* loadDescriptorInstance up to its read: the cached instance if there is one.
loadDescriptorInstance(m, x) ==
  IF x.id \in m.instanceCache THEN startInvoke(m, x, m.hSource[x.id].by)
  ELSE [m |-> m, x |-> [x EXCEPT !.pc = "loadRead"]]

\* loadDescriptorInstance from the completion of its read, lines 360-369:
\* result is what the script's top-level code does in loadScrippet.
loadCompleted(m, x, e, fs, result) ==
  IF ~Has(fs, x.path) THEN loadFailed(m, x, "Error")
  ELSE IF result # "ok" THEN loadFailed(m, x, result)
  ELSE startInvoke(
         updateLastScan([m EXCEPT !.instanceCache = @ \cup {x.id},
                                  !.errorMap = Del(@, x.path),
                                  !.hSource = Put(@, x.id, [path |-> x.path, by |-> e]),
                                  !.hStale = @ \ {x.id},
                                  !.hSeen = @ \ {x.id}]),
         x, e)

\* The declined confirmation taken as consent.
afterConfirmAlwaysRuns(m, x, confirmed) == loadDescriptorInstance(m, x)

\* executeDescriptor, lines 226-228, from the dialog's answer.
afterConfirm(m, x, confirmed) ==
  IF ~confirmed THEN [m |-> m, x |-> Finish(x, "declined")]
  ELSE loadDescriptorInstance(m, x)

\* A disabled preference does not stop the invocation.
executeDescriptorIgnoringDisabled(m, x, descriptor) ==
  loadDescriptorInstance(ensurePreference(m, descriptor.id, descriptor.path),
                         [x EXCEPT !.id = descriptor.id, !.path = descriptor.path])

\* executeDescriptor up to its first await, lines 218-232.
executeDescriptor(m, x, descriptor) ==
  LET m1 == ensurePreference(m, descriptor.id, descriptor.path)
      prefs == m1.scriptStates[descriptor.id]
      x1 == [x EXCEPT !.id = descriptor.id, !.path = descriptor.path] IN
  IF ~prefs.enabled THEN [m |-> m1, x |-> Finish(Notify(x1, "disabled"), "disabled")]
  ELSE IF shouldConfirmFirstRun(descriptor.path) /\ ~prefs.hasRun
    THEN [m |-> m1, x |-> [x1 EXCEPT !.pc = "confirm"]]
  ELSE loadDescriptorInstance(m1, x1)

executeById(m, x, id) ==
  IF ~Has(m.descriptorsById, id) THEN [m |-> m, x |-> Finish([x EXCEPT !.id = id], "noDescriptor")]
  ELSE executeDescriptor(m, x, m.descriptorsById[id])

\* One step of invocation e with outcome r.
ExecStep(e, r, answer, thrown) ==
  /\ Commit(r.m)
  /\ execs' = [execs EXCEPT ![e] = IF r.x.pc = "finished" THEN FinishedExec ELSE r.x]
  /\ hLast' = [e |-> e, id |-> r.x.id, answer |-> answer, thrown |-> thrown,
               notices |-> r.x.notices, outcome |-> r.x.outcome]
  /\ UNCHANGED <<settings, hLoad, hBatch, files, watching, initialized, now, procs,
                 hAccepted, hReloads, hUser, hTimed>>

\* The user runs a registered command: its callback calls executeById(id)
\* and does not await it.
ExecStart(e, id) ==
  /\ execs[e].pc = "idle"
  /\ \A k \in ExecIds : k < e => execs[k].pc # "idle"
  /\ id \in commands
  /\ ExecStep(e, executeById(Mgr, execs[e], id), "", "")

\* The first-run dialog is answered (false: Cancel, or the dialog closed).
ExecConfirm(e, confirmed) ==
  /\ execs[e].pc = "confirm"
  /\ ExecStep(e, afterConfirm(Mgr, execs[e], confirmed), IF confirmed THEN "yes" ELSE "no", "")

\* The read of loadDescriptorInstance completes.
ExecLoadDone(e, result) ==
  /\ execs[e].pc = "loadRead"
  /\ LET thrown == IF ~Has(files, execs[e].path) THEN "Error"
                   ELSE IF result = "ok" THEN "" ELSE result IN
     ExecStep(e, loadCompleted(Mgr, execs[e], e, files, result), "", thrown)

\* The script's invoke settles.
ExecInvokeDone(e, result) ==
  /\ execs[e].pc = "invoking"
  /\ ExecStep(e, IF result = "ok" THEN invokeSucceeded(Mgr, execs[e])
                 ELSE invokeFailed(Mgr, execs[e], result),
              "", IF result = "ok" THEN "" ELSE result)

\* saveSettings of executeDescriptor's flushSettings returns.
ExecSaved(e) ==
  /\ execs[e].pc = "saving"
  /\ ExecStep(e, [m |-> Mgr, x |-> Finish(execs[e], "succeeded")], "", "")

\* ------------------------------------------------------ storage events

RECURSIVE queueAll(_, _, _)
queueAll(m, changes, t) ==
  IF changes = <<>> THEN m ELSE queueAll(queueChange(m, Head(changes), t), Tail(changes), t)

\* A change of the storage (edited: the paths whose content it changes)
\* and, once the watchers are registered, the handlers of the events it
\* raises (handleFileChange, the rename handler), which run to completion.
StorageEvent(newFiles, changes, edited) ==
  /\ files' = newFiles
  /\ IF watching
     THEN /\ Commit(markStale(queueAll(Mgr, changes, now), edited))
          /\ hAccepted' =
               IF \E k \in 1..Len(changes) : changes[k].type = "full" THEN {FullMark}
               ELSE IF pendingChanges.full THEN hAccepted
               ELSE hAccepted \cup {changes[k].path : k \in 1..Len(changes)}
          /\ hWide' = IF now - lastChangeAt < BurstWindow THEN hWide ELSE 0
          /\ hTight' = IF now - lastChangeAt < baseReloadDelay THEN hTight ELSE 0
          /\ hPendingSince' = IF hPendingSince = -1 THEN now ELSE hPendingSince
          /\ hFiredAfter' = hFiredAfter
     ELSE /\ Commit(markStale(Mgr, edited))
          /\ UNCHANGED <<hAccepted, hTimed>>
  /\ UNCHANGED <<invocations, hBatch, watching, initialized, now, procs, hReloads, hUserOps>>

CreateFile(path, raw) ==
  /\ ~Has(files, path)
  /\ StorageEvent(Put(files, path, raw), <<[type |-> "changed", path |-> path]>>, {path})
  /\ hChanges' = hChanges + 1

ModifyFile(path, raw) ==
  /\ Has(files, path)
  /\ StorageEvent(Put(files, path, raw), <<[type |-> "changed", path |-> path]>>, {path})
  /\ hChanges' = hChanges + 1

DeleteFile(path) ==
  /\ Has(files, path)
  /\ StorageEvent(Del(files, path), <<[type |-> "deleted", path |-> path]>>, {path})
  /\ hChanges' = hChanges + 1

RenameFile(old, new) ==
  /\ Has(files, old)
  /\ ~Has(files, new)
  /\ StorageEvent(Put(Del(files, old), new, files[old]),
                  <<[type |-> "deleted", path |-> old], [type |-> "changed", path |-> new]>>,
                  {old, new})
  /\ hChanges' = hChanges + 1

\* A folder inside the managed root is renamed: the rename handler asks for
\* a full rescan.
FolderRenamed ==
  /\ watching
  /\ StorageEvent(files, <<[type |-> "full", path |-> ""]>>, {})
  /\ hChanges' = hChanges + 1

\* A modify event that leaves the content as it is (a save without edits).
Touch(path) ==
  /\ watching
  /\ Has(files, path)
  /\ StorageEvent(files, <<[type |-> "changed", path |-> path]>>, {})
  /\ UNCHANGED hChanges

\* The clock of the timed specification: timers fire on time.
Tick ==
  /\ watching
  /\ now < MaxTime
  /\ reloadTimer = NoTimer \/ now < reloadTimer
  /\ now' = now + TickMs
  /\ Commit(Mgr)
  /\ UNCHANGED <<invocations, hBatch, files, watching, initialized, procs, hAccepted, hReloads, hUser, hTimed>>

\* ------------------------------------------------------ specifications

\* The manager with its watchers: storage changes arrive as events.
Next ==
  \/ Initialize
  \/ \E i \in ProcIds : ListBase(i)
  \/ \E i \in ProcIds : ListStartup(i)
  \/ \E i \in ProcIds, path \in Paths : ReadDone(i, path)
  \/ \E i \in ProcIds : ReloadSaved(i)
  \/ \E i \in ProcIds : RefreshReadDone(i)
  \/ \E i \in ProcIds : FlushSaved(i)
  \/ \E i \in ProcIds : RenameReadDone(i)
  \/ \E i \in ProcIds : RenameWriteDone(i)
  \/ TimerFires
  \/ \E path \in EventPaths, raw \in RawIds : watching /\ hChanges < MaxChanges /\ CreateFile(path, raw)
  \/ \E path \in EventPaths, raw \in RawIds : watching /\ hChanges < MaxChanges /\ ModifyFile(path, raw)
  \/ \E path \in EventPaths : watching /\ hChanges < MaxChanges /\ DeleteFile(path)
  \/ \E old \in EventPaths, new \in EventPaths : watching /\ hChanges < MaxChanges /\ RenameFile(old, new)
  \/ (hChanges < MaxChanges /\ FolderRenamed)
  \/ (hUserOps < MaxUserOps /\ ReloadRequested)
  \/ \E dup \in lastScan.duplicates : hUserOps < MaxUserOps /\ RenameRequested(dup)
  \/ \E descriptor \in lastScan.commands \cup lastScan.startup :
       hUserOps < MaxUserOps /\ Toggle(descriptor)

Spec == Init /\ [][Next]_vars

\* Full reloads alone: initialize(), during which the storage may change
\* (no watcher is registered yet), then reload() again.
AllStores ==
  {f \in UNION {[ps -> RawIds] : ps \in SUBSET EventPaths} : TRUE}

InitialPrefs ==
  {EmptyMap,
   ("a.js" :> [enabled |-> FALSE, hasRun |-> TRUE]),
   ("foo" :> [enabled |-> FALSE, hasRun |-> FALSE])}

InitScan ==
  /\ files \in AllStores
  /\ scriptStates \in InitialPrefs
  /\ confirmBeforeFirstRun = TRUE
  /\ trustedFolders = {}
  /\ runStartupOnLoad = FALSE
  /\ InitManager

NextScan ==
  \/ Initialize
  \/ \E i \in ProcIds :
       \/ ListBase(i)
       \/ ListStartup(i)
       \/ \E path \in Paths : ReadDone(i, path)
       \/ ReloadSaved(i)
  \/ \E path \in EventPaths : ~watching /\ initialized /\ hChanges < MaxScanChanges /\ DeleteFile(path)
  \/ \E path \in EventPaths :
       ~watching /\ initialized /\ hChanges < MaxScanChanges /\ ModifyFile(path, "Foo")
  \/ (Busy = {} /\ hUserOps + 1 < MaxScans /\ ReloadRequested)

SpecScan == InitScan /\ [][NextScan]_vars

\* The timed specification: the clock, modify events, the timer firing at
\* its instant.
InitDebounce ==
  /\ files = StorePlain
  /\ scriptStates = EmptyMap
  /\ confirmBeforeFirstRun = TRUE
  /\ trustedFolders = {}
  /\ runStartupOnLoad = FALSE
  /\ InitManager

NextDebounce ==
  \/ Initialize
  \/ \E i \in ProcIds : ListBase(i)
  \/ \E i \in ProcIds : ListStartup(i)
  \/ \E i \in ProcIds, path \in Paths : ReadDone(i, path)
  \/ \E i \in ProcIds : ReloadSaved(i)
  \/ \E i \in ProcIds : RefreshReadDone(i)
  \/ Tick
  \/ (now = reloadTimer /\ TimerFires)
  \/ (changeBurst < MaxBurst /\ Touch("a.js"))

SpecDebounce == InitDebounce /\ [][NextDebounce]_vars

\* Invocations of the command of a.js, also several at a time, on the
\* registry as initialize() left it.
StoreTwo == ("a.js" :> "Foo") @@ ("b.js" :> "")

InitInvoke ==
  /\ files = StoreTwo
  /\ scriptStates = EmptyMap
  /\ confirmBeforeFirstRun \in BOOLEAN
  /\ trustedFolders \in TrustedChoices
  /\ runStartupOnLoad = FALSE
  /\ InitManager

ExecNext ==
  \E e \in ExecIds :
    \/ ExecStart(e, "foo")
    \/ \E confirmed \in BOOLEAN : ExecConfirm(e, confirmed)
    \/ \E result \in ScriptResults : ExecLoadDone(e, result)
    \/ \E result \in ScriptResults : ExecInvokeDone(e, result)
    \/ ExecSaved(e)

NextInvoke ==
  \/ Initialize
  \/ \E i \in ProcIds :
       \/ ListBase(i)
       \/ ListStartup(i)
       \/ \E path \in Paths : ReadDone(i, path)
       \/ ReloadSaved(i)
  \/ ExecNext

SpecInvoke == InitInvoke /\ [][NextInvoke]_vars

InitInvokeReload ==
  /\ files = StoreTwo
  /\ scriptStates = EmptyMap
  /\ confirmBeforeFirstRun \in BOOLEAN
  /\ trustedFolders = {}
  /\ runStartupOnLoad = FALSE
  /\ InitManager

\* No invocation is in progress.
ExecsAtRest == \A e \in ExecIds : execs[e].pc \in {"idle", "finished"}

\* Invocations of the command of a.js, one at a time, while the registry is
\* reloaded, flushed and toggled, one registry operation at a time.
NextInvokeReload ==
  \/ Initialize
  \/ \E i \in ProcIds :
       \/ ListBase(i)
       \/ ListStartup(i)
       \/ \E path \in Paths : ReadDone(i, path)
       \/ ReloadSaved(i)
       \/ RefreshReadDone(i)
  \/ (Busy = {} /\ TimerFires)
  \/ (watching /\ hChanges + hUserOps < MaxInvokeEvents /\ ModifyFile("a.js", "Foo"))
  \/ (Busy = {} /\ hChanges + hUserOps < MaxInvokeEvents /\ ReloadRequested)
  \/ \E descriptor \in lastScan.commands :
       hChanges + hUserOps < MaxInvokeEvents /\ Toggle(descriptor)
  \/ \E e \in ExecIds :
       \/ (ExecsAtRest /\ ExecStart(e, "foo"))
       \/ \E confirmed \in BOOLEAN : ExecConfirm(e, confirmed)
       \/ \E result \in ScriptResults : ExecLoadDone(e, result)
       \/ \E result \in ScriptResults : ExecInvokeDone(e, result)
       \/ ExecSaved(e)

SpecInvokeReload == InitInvokeReload /\ [][NextInvokeReload]_vars

\* The startup scrippets: initialize() with run-at-launch on or off, then
\* the settings tab's run-at-launch toggle and folder, and the toggles of
\* the startup scrippets.
StoreStartup == ("startup/s.js" :> "") @@ ("startup/t.js" :> "")

StartupPrefs ==
  {EmptyMap,
   ("startup/s.js" :> [enabled |-> FALSE, hasRun |-> FALSE]),
   ("t" :> [enabled |-> TRUE, hasRun |-> TRUE])}

InitStartup ==
  /\ files = StoreStartup
  /\ scriptStates \in StartupPrefs
  /\ confirmBeforeFirstRun = TRUE
  /\ trustedFolders = {}
  /\ runStartupOnLoad \in BOOLEAN
  /\ InitManager

NextStartup ==
  \/ Initialize
  \/ \E i \in ProcIds :
       \/ ListBase(i)
       \/ ListStartup(i)
       \/ \E path \in Paths : ReadDone(i, path)
       \/ ReloadSaved(i)
       \/ \E result \in ScriptResults : StartupLoadDone(i, result)
       \/ \E result \in ScriptResults : StartupInvokeDone(i, result)
       \/ StartupSaved(i)
       \/ LaunchSaved(i)
       \/ FolderSaved(i)
  \/ \E value \in BOOLEAN : hUserOps < MaxStartupOps /\ SetRunAtLaunch(value)
  \/ (Busy = {} /\ hUserOps < MaxStartupOps /\ SetFolderRequested)
  \/ \E descriptor \in lastScan.startup : hUserOps < MaxStartupOps /\ Toggle(descriptor)

SpecStartup == InitStartup /\ [][NextStartup]_vars

\* Renames of the one command file, and toggles of its command, each once
\* the one before has been flushed; the stored preferences may hold the
\* record of an earlier b.js, under its id or (legacy) under its path.
StoreOne == ("a.js" :> "")

RenamePrefs ==
  {EmptyMap,
   ("a" :> [enabled |-> FALSE, hasRun |-> FALSE]),
   ("b" :> [enabled |-> TRUE, hasRun |-> TRUE]),
   ("b" :> [enabled |-> FALSE, hasRun |-> TRUE]),
   ("b.js" :> [enabled |-> FALSE, hasRun |-> FALSE])}

InitRename ==
  /\ files = StoreOne
  /\ scriptStates \in RenamePrefs
  /\ confirmBeforeFirstRun = TRUE
  /\ trustedFolders = {}
  /\ runStartupOnLoad = FALSE
  /\ InitManager

\* Nothing is in flight and no timer is armed.
AtRest == Busy = {} /\ reloadTimer = NoTimer

NextRename ==
  \/ Initialize
  \/ \E i \in ProcIds :
       \/ ListBase(i)
       \/ ListStartup(i)
       \/ \E path \in Paths : ReadDone(i, path)
       \/ ReloadSaved(i)
       \/ RefreshReadDone(i)
       \/ FlushSaved(i)
  \/ TimerFires
  \/ \E old \in CommandPaths, new \in CommandPaths :
       watching /\ AtRest /\ hChanges < MaxChanges /\ RenameFile(old, new)
  \/ \E descriptor \in lastScan.commands :
       AtRest /\ hUserOps < MaxUserOps /\ Toggle(descriptor)

SpecRename == InitRename /\ [][NextRename]_vars

\* Every registry operation and the invocations of the registered commands,
\* one operation at a time, over two files that claim the same id and the
\* stored preferences of InitialPrefs.
StoreSameId == ("a.js" :> "Foo") @@ ("b.js" :> "Foo")

InitPrefs ==
  /\ files = StoreSameId
  /\ scriptStates \in InitialPrefs
  /\ confirmBeforeFirstRun = TRUE
  /\ trustedFolders = {}
  /\ runStartupOnLoad = FALSE
  /\ InitManager

\* No registry operation and no invocation is in progress.
AllAtRest == AtRest /\ ExecsAtRest

NextPrefs ==
  \/ Initialize
  \/ \E i \in ProcIds :
       \/ ListBase(i)
       \/ ListStartup(i)
       \/ \E path \in Paths : ReadDone(i, path)
       \/ ReloadSaved(i)
       \/ RefreshReadDone(i)
       \/ FlushSaved(i)
       \/ RenameReadDone(i)
       \/ RenameWriteDone(i)
  \/ TimerFires
  \/ \E path \in CommandPaths :
       watching /\ AllAtRest /\ hChanges + hUserOps < MaxInvokeEvents /\ DeleteFile(path)
  \/ \E old \in CommandPaths, new \in CommandPaths :
       watching /\ AllAtRest /\ hChanges + hUserOps < MaxInvokeEvents /\ RenameFile(old, new)
  \/ (AllAtRest /\ hChanges + hUserOps < MaxInvokeEvents /\ ReloadRequested)
  \/ \E dup \in lastScan.duplicates :
       AllAtRest /\ hChanges + hUserOps < MaxInvokeEvents /\ RenameRequested(dup)
  \/ \E descriptor \in lastScan.commands :
       AllAtRest /\ hChanges + hUserOps < MaxInvokeEvents /\ Toggle(descriptor)
  \/ \E e \in ExecIds :
       \/ \E id \in commands : AllAtRest /\ ExecStart(e, id)
       \/ \E confirmed \in BOOLEAN : ExecConfirm(e, confirmed)
       \/ \E result \in ScriptResults : ExecLoadDone(e, result)
       \/ \E result \in ScriptResults : ExecInvokeDone(e, result)
       \/ ExecSaved(e)

SpecPrefs == InitPrefs /\ [][NextPrefs]_vars

\* The pending changes: the watcher's events on the command files and the
\* folder, queued while the timer is armed, and the flushes, one at a time.
InitPending ==
  /\ files = StoreOne
  /\ scriptStates = EmptyMap
  /\ confirmBeforeFirstRun = TRUE
  /\ trustedFolders = {}
  /\ runStartupOnLoad = FALSE
  /\ InitManager

NextPending ==
  \/ Initialize
  \/ \E i \in ProcIds :
       \/ ListBase(i)
       \/ ListStartup(i)
       \/ \E path \in Paths : ReadDone(i, path)
       \/ ReloadSaved(i)
       \/ RefreshReadDone(i)
       \/ FlushSaved(i)
  \/ (Busy = {} /\ TimerFires)
  \/ \E path \in CommandPaths :
       watching /\ hChanges < MaxPendingEvents /\ CreateFile(path, "")
  \/ \E path \in CommandPaths :
       watching /\ hChanges < MaxPendingEvents /\ ModifyFile(path, "")
  \/ \E path \in CommandPaths :
       watching /\ hChanges < MaxPendingEvents /\ DeleteFile(path)
  \/ \E old \in CommandPaths, new \in CommandPaths :
       watching /\ hChanges < MaxPendingEvents /\ RenameFile(old, new)
  \/ (watching /\ hChanges < MaxPendingEvents /\ FolderRenamed)

SpecPending == InitPending /\ [][NextPending]_vars

\* saveSettings (saveData) rejects. flushSettings has no try: the rejection
\* leaves performFullReload at line 203, before lines 204-209.
ReloadSaveFailed(i) ==
  /\ procs[i].pc = "reloadSaving"
  /\ ScanStep(i, [m |-> Mgr, p |-> [procs[i] EXCEPT !.pc = "done", !.rejected = TRUE]], {})

\* The rejection leaves processPendingChanges, or renameScrippetId, at its
\* flushSettings, before updateLastScan and notify.
FlushSaveFailed(i) ==
  /\ procs[i].pc = "flushSaving"
  /\ ProcStep(i, [m |-> Mgr, p |-> [procs[i] EXCEPT !.pc = "done", !.rejected = TRUE]])

\* The rejection is thrown inside executeDescriptor's second try, line 246,
\* and caught by its catch block as if invoke had thrown.
ExecSaveFailed(e) ==
  /\ execs[e].pc = "saving"
  /\ ExecStep(e, invokeFailed(Mgr, execs[e], "Error"), "", "")

\* The operations that save the preferences, one at a time, each save
\* succeeding or failing.
NextSave ==
  \/ Initialize
  \/ \E i \in ProcIds :
       \/ ListBase(i)
       \/ ListStartup(i)
       \/ \E path \in Paths : ReadDone(i, path)
       \/ ReloadSaved(i)
       \/ ReloadSaveFailed(i)
       \/ RefreshReadDone(i)
       \/ FlushSaved(i)
       \/ FlushSaveFailed(i)
  \/ (Busy = {} /\ TimerFires)
  \/ (watching /\ AllAtRest /\ hChanges + hUserOps < MaxInvokeEvents /\ ModifyFile("a.js", ""))
  \/ \E e \in ExecIds :
       \/ \E id \in commands : AllAtRest /\ ExecStart(e, id)
       \/ \E confirmed \in BOOLEAN : ExecConfirm(e, confirmed)
       \/ \E result \in ScriptResults : ExecLoadDone(e, result)
       \/ \E result \in ScriptResults : ExecInvokeDone(e, result)
       \/ ExecSaved(e)
       \/ ExecSaveFailed(e)

SpecSave == InitInvokeReload /\ [][NextSave]_vars

\* The loader alone: loadScrippet applied to the sources of Sources.
LoadSource(source) ==
  /\ ~hLoad.applied
  /\ hLoad' = [source |-> source, applied |-> TRUE, result |-> loadScrippet(source)]
  /\ Commit(Mgr)
  /\ UNCHANGED <<settings, execs, hLast, hBatch, files, watching, initialized, now, procs,
                 hAccepted, hReloads, hUser, hTimed>>

NextLoader == \E source \in Sources : LoadSource(source)

SpecLoader == InitPending /\ [][NextLoader]_vars

\* ------------------------------------------------------------- claims

\* No operation in flight, no timer armed, nothing pending.
Quiescent ==
  /\ watching
  /\ Busy = {}
  /\ reloadTimer = NoTimer
  /\ pendingChanges = createPendingChanges

Resolved(path) == toIdentifier(path, files[path])

\* The registry is what a full scan of the storage would give, whichever
\* file wins an id that several files resolve to.
MatchesStorage ==
  /\ DOMAIN descriptorsByPath \subseteq DOMAIN files
  /\ DOMAIN errorMap \cup DOMAIN duplicates \subseteq DOMAIN files
  /\ \A p \in DOMAIN descriptorsByPath :
       /\ descriptorsByPath[p].path = p
       /\ descriptorsByPath[p].id = Resolved(p)
       /\ descriptorsByPath[p].kind = resolveKind(p)
       /\ ~Has(duplicates, p)
       /\ ~Has(errorMap, p)
  /\ \A p, q \in DOMAIN descriptorsByPath :
       p # q => descriptorsByPath[p].id # descriptorsByPath[q].id
  /\ \A p \in DOMAIN files :
       IF Resolved(p) = ""
       THEN ~Has(descriptorsByPath, p) /\ Has(errorMap, p) /\ ~Has(duplicates, p)
       ELSE \/ Has(descriptorsByPath, p)
            \/ /\ Has(duplicates, p)
               /\ duplicates[p].id = Resolved(p)
               /\ Has(errorMap, p)
               /\ \E q \in DOMAIN descriptorsByPath :
                    q # p /\ descriptorsByPath[q].id = Resolved(p)
  /\ lastScan = updateLastScan(Mgr).lastScan

\* C1: once the events have stopped and every flush has completed, the
\* published registry is what a fresh full scan of the storage would give,
\* up to the winner among files with the same id.
C1_Convergence == Quiescent => MatchesStorage

\* C2: no two descriptors of the path map have the same id.
C2_IdUnique ==
  \A p, q \in DOMAIN descriptorsByPath :
    p # q => descriptorsByPath[p].id # descriptorsByPath[q].id

PendingKeys ==
  SeqToSet(pendingChanges.changed) \cup SeqToSet(pendingChanges.deleted)
    \cup (IF pendingChanges.full THEN {FullMark} ELSE {})

\* C3: every change queueChange accepted stays in the pending set until a
\* flush cycle takes the set over; none is discarded.  (hAccepted drops a
\* change when the timer's flush takes the pending set, and also when a
\* full reload reads the changed path, or lists its folder without it,
\* after the change: such a change is handled by that reload.)
C3_NoLostEvent == hAccepted \subseteq PendingKeys

Cycles == {i \in Busy : procs[i].op \in {"initialize", "reload", "flush"}}

\* C4: a flush or full reload starts only when the previous one has
\* finished: at most one cycle is in progress.
C4_NoOverlap == Cardinality(Cycles) <= 1

\* The flush of the pending changes is scheduled, and fires, between the
\* base delay and the capped maximum after the last event.
FlushWindow ==
  /\ hPendingSince # -1 => reloadTimer # NoTimer
  /\ reloadTimer # NoTimer =>
       /\ lastChangeAt + baseReloadDelay <= reloadTimer
       /\ reloadTimer <= lastChangeAt + maxReloadDelay
  /\ hFiredAfter # -1 =>
       (baseReloadDelay <= hFiredAfter /\ hFiredAfter <= maxReloadDelay)

\* C5 as stated: a burst whose events each arrive less than 500 ms after
\* the previous one produces one flush, between 200 ms and 1000 ms after
\* its last event.
C5_Original == hWide <= 1 /\ FlushWindow

\* C5: a burst whose events each arrive less than the base delay (200 ms)
\* after the previous one produces one flush, between 200 ms and 1000 ms
\* after its last event.
C5_Debounce == hTight <= 1 /\ FlushWindow

\* A burst of events 100 ms apart has been flushed once, the capped maximum
\* after its last event.
C5_Witness == hTight = 1 /\ hFiredAfter = maxReloadDelay /\ reloadTimer = NoTimer

\* C6: a queued change is flushed within a bound (here twice the capped
\* maximum delay), however many events follow it.
C6_BoundedLatency ==
  hPendingSince # -1 => now - hPendingSince <= 2 * maxReloadDelay

\* The categories in which a published scan holds a path.
CategoriesOf(scan, path) ==
  (IF \E d \in scan.commands : d.path = path THEN {"command"} ELSE {})
    \cup (IF \E d \in scan.startup : d.path = path THEN {"startup"} ELSE {})
    \cup (IF \E e \in scan.errors : e.path = path THEN {"error"} ELSE {})
    \cup (IF \E u \in scan.duplicates : u.path = path THEN {"duplicate"} ELSE {})

\* C7 as stated: after a full scan every discovered file is in exactly one
\* of the four categories command, startup, error, duplicate.
C7_Original ==
  \A k \in 1..Len(hReloads) : \A path \in hReloads[k].listed :
    Cardinality(CategoriesOf(hReloads[k].scan, path)) = 1

\* C7: after a full scan the registry is the scan's result, every
\* discovered file is in exactly one of command, startup, error, and a file
\* has a duplicate record exactly when its error is the duplicate-id error.
C7_Partition ==
  \A k \in 1..Len(hReloads) :
    LET r == hReloads[k] IN
    /\ r.scan = r.result
    /\ \A path \in r.listed :
         /\ Cardinality(CategoriesOf(r.scan, path) \ {"duplicate"}) = 1
         /\ "duplicate" \in CategoriesOf(r.scan, path)
              <=> [path |-> path, message |-> "Duplicate scrippet id"] \in r.scan.errors

\* A scan of three files has registered a command and a startup scrippet
\* and recorded a duplicate.
C7_Witness ==
  /\ Len(hReloads) > 0
  /\ LET r == hReloads[Len(hReloads)] IN
     /\ r.listed = EventPaths
     /\ r.scan.commands # {} /\ r.scan.startup # {} /\ r.scan.duplicates # {}

DescriptorSet(scan) == scan.commands \cup scan.startup

\* Two full reloads have run and the storage did not change from the start
\* of the first one on.
TwoReloadsSameStorage ==
  Len(hReloads) = 2 /\ hReloads[1].since = hReloads[2].since /\ hReloads[2].since = hChanges

\* C8 as stated: two full reloads with no storage change in between yield
\* the same descriptors: paths, ids, names, enabled flags.
C8_Original ==
  TwoReloadsSameStorage =>
    DescriptorSet(hReloads[1].scan) = DescriptorSet(hReloads[2].scan)

IdKindEnabled(scan) ==
  {[id |-> d.id, kind |-> d.kind, enabled |-> d.enabled] : d \in DescriptorSet(scan)}

\* Two discovered files of the same kind resolved to the same id.
Collision(r) ==
  \E p, q \in DOMAIN r.read :
    p # q /\ r.read[p] = r.read[q] /\ r.read[p] # "" /\ resolveKind(p) = resolveKind(q)

\* C8: two full reloads with no storage change in between yield the same
\* ids, each with the same kind and enabled flag; the descriptors are the
\* same, paths and names too, when no two files of a kind share an id.
C8_Idempotent ==
  TwoReloadsSameStorage =>
    /\ IdKindEnabled(hReloads[1].scan) = IdKindEnabled(hReloads[2].scan)
    /\ ~Collision(hReloads[2]) =>
         DescriptorSet(hReloads[1].scan) = DescriptorSet(hReloads[2].scan)

\* Two reloads of the same storage in which two files share an id and the
\* reads completed in a different order: another file won the id.
C8_Witness ==
  /\ TwoReloadsSameStorage
  /\ Collision(hReloads[2])
  /\ DescriptorSet(hReloads[1].scan) # DescriptorSet(hReloads[2].scan)

Claimants(r, id) == {path \in DOMAIN r.read : r.read[path] = id}

\* C9: of the files a full scan found to resolve to an id X, the first
\* claimant alone is registered with X and each other has a duplicate
\* record for X; with two such files and none resolving to X-2 the
\* suggestion is X-2.
C9_FirstClaimWins ==
  \A k \in 1..Len(hReloads) :
    LET r == hReloads[k] IN
    \A id \in Values(r.read) \ {""} :
      LET winners == {d \in DescriptorSet(r.scan) : d.id = id} IN
      /\ Cardinality(winners) = 1
      /\ \A d \in winners : d.path = r.first[id] /\ d.path \in Claimants(r, id)
      /\ \A path \in Claimants(r, id) \ {r.first[id]} :
           \E u \in r.scan.duplicates : u.path = path /\ u.id = id
      /\ (Cardinality(Claimants(r, id)) = 2 /\ Claimants(r, id \o "-2") = {}) =>
           \A u \in r.scan.duplicates : u.id = id => u.suggestion = id \o "-2"

\* a.js and b.js both resolve to foo and no file to foo-2: b.js, read
\* first, holds foo and a.js is its duplicate with suggestion foo-2.
C9_Witness ==
  /\ Len(hReloads) > 0
  /\ LET r == hReloads[Len(hReloads)] IN
     /\ Claimants(r, "foo") = {"a.js", "b.js"}
     /\ Claimants(r, "foo-2") = {}
     /\ r.first["foo"] = "b.js"
     /\ [path |-> "a.js", id |-> "foo", suggestion |-> "foo-2"] \in r.scan.duplicates

\* C10: a suggested id differs, when it is generated, from every id a
\* registered descriptor holds and from every id the scan has claimed.
C10_SuggestionFree ==
  \A s \in hSuggestion : s.suggestion \notin s.held \cup s.claimed

\* The path a registered command runs: its callback looks the id up in the
\* id map (executeById).
CommandPath(id) == descriptorsById[id].path

\* C11: when the id at a path changes from A to B, A's command is retired
\* in the step that registers B's: no two registered commands are for the
\* same path.
C11_OneCommandPerPath ==
  \A a, b \in commands \cap DOMAIN descriptorsById :
    a # b => CommandPath(a) # CommandPath(b)

\* refreshDescriptor of process i completes in this step.
RefreshCompletes(i) == procs[i].pc = "refreshRead" /\ procs'[i] # procs[i]

\* The id createDescriptor computes for a path from the storage ("" when the
\* read fails or no id can be derived).
ComputedId(path) == IF Has(files, path) THEN Resolved(path) ELSE ""

\* The paths other than path whose registered descriptor holds id.
HoldersOf(id, path) ==
  {q \in DOMAIN descriptorsByPath \ {path} : descriptorsByPath[q].id = id}

\* C12: when refreshDescriptor computes for path P an id held by the
\* descriptor of another path Q, P ends with no descriptor, an error and a
\* duplicate record for that id, and Q's descriptor, command and cached
\* instance are as before.
C12_CollisionRejected ==
  [][\A i \in ProcIds : RefreshCompletes(i) =>
       LET P == procs[i].path
           id == ComputedId(P) IN
       \A Q \in HoldersOf(id, P) :
         /\ ~Has(descriptorsByPath', P)
         /\ Has(errorMap', P)
         /\ Has(duplicates', P) /\ duplicates'[P].id = id
         /\ Has(descriptorsByPath', Q) /\ descriptorsByPath'[Q] = descriptorsByPath[Q]
         /\ (id \in commands') = (id \in commands)
         /\ (id \in instanceCache') = (id \in instanceCache)]_vars

\* The ids of the enabled command descriptors of the published scan.
PublishedCommandIds == {d.id : d \in {c \in lastScan.commands : c.enabled}}

\* C13: whenever no reload, flush or other operation of the manager is in
\* progress, the ids with a registered command are the ids of the enabled
\* command descriptors of the published scan.  (commands is keyed by id and
\* registerCommand removes the host command it replaces: one per id.)
C13_CommandsMatchScan ==
  (watching /\ Busy = {}) => commands = PublishedCommandIds

\* The full reloads between clearing the maps and the end of their reads.
Scanning == {i \in ProcIds : procs[i].pc \in {"listBase", "listStartup", "reading"}}

\* C14: while a full reload is between clearing its maps and finishing its
\* reads, no step replaces the published scan: nothing computed from the
\* cleared or half-filled maps is published.
C14_NoPartialPublish ==
  [][\A i \in Scanning : procs'[i].pc \in {"listBase", "listStartup", "reading"} =>
       lastScan' = lastScan]_vars

\* The cached instances of registered ids that were compiled from a content
\* of the descriptor's file older than its last change, which a reload or a
\* flush has read since.
StaleEntries ==
  {id \in instanceCache \cap hStale \cap hSeen :
     Has(descriptorsById, id) /\ descriptorsById[id].path = hSource[id].path}

\* C15: once every reload and flush has completed and no change is pending,
\* the instance cache holds no entry for a path's id that was compiled from
\* content read before a change of the path which a reload or a flush has
\* processed.
C15_CacheFresh == Quiescent => StaleEntries = {}

\* The invocations whose invoke has been called and has not settled.
Invoking == {e \in ExecIds : execs[e].pc = "invoking"}

\* C16: no two invocations triggered through the registered command run
\* invoke on the same script instance at the same time.
C16_NoConcurrentInvoke ==
  \A e, f \in Invoking : e # f => execs[e].instance # execs[f].instance

\* executeById is called in this step by invocation e.
Starts(e) == execs[e].pc = "idle" /\ execs'[e].pc # "idle"

\* The preference executeDescriptor gets for a registered id: the entry
\* under the id, else the legacy entry under the path.
PreferenceOf(id) ==
  IF Has(scriptStates, id) THEN {scriptStates[id]}
  ELSE IF Has(scriptStates, descriptorsById[id].path)
    THEN {scriptStates[descriptorsById[id].path]}
  ELSE {}

\* C17: invoking a descriptor whose preference is disabled runs no script
\* code, loads and caches no instance, shows the one notice "disabled",
\* leaves hasRun as it was and does not throw.
C17_DisabledIsNoOp ==
  [][\A e \in ExecIds :
       (Starts(e) /\ Has(descriptorsById, hLast'.id)
          /\ \E prefs \in PreferenceOf(hLast'.id) : ~prefs.enabled) =>
         /\ execs'[e].pc = "finished"
         /\ hLast'.outcome = "disabled"
         /\ hLast'.notices = <<"disabled">>
         /\ hLast'.thrown = ""
         /\ instanceCache' = instanceCache
         /\ \A prefs \in PreferenceOf(hLast'.id) :
              scriptStates'[hLast'.id].hasRun = prefs.hasRun]_vars

\* A command was run whose script's preference is disabled.
C17_Witness == hLast.outcome = "disabled" /\ ~scriptStates[hLast.id].enabled

\* The first-run dialog of invocation e is answered no in this step.
Declines(e) ==
  execs[e].pc = "confirm" /\ execs'[e] # execs[e] /\ hLast'.answer = "no"

\* C18: when the first-run dialog is answered no, the invocation ends: the
\* script is neither loaded nor invoked by it, hasRun is not marked (the
\* preferences are as before), and the registry, the instance cache, the
\* error map and the registered commands are unchanged.
C18_DeclinedNoEffect ==
  [][\A e \in ExecIds : Declines(e) =>
         /\ execs'[e].pc = "finished"
         /\ hLast'.outcome = "declined"
         /\ hLast'.notices = <<>>
         /\ UNCHANGED <<scriptStates, descriptorsByPath, descriptorsById, lastScan,
                        instanceCache, errorMap, duplicates, commands>>]_vars

\* A first-run dialog was answered no and the script has not run.
C18_Witness ==
  hLast.answer = "no" /\ hLast.outcome = "declined" /\ ~scriptStates[hLast.id].hasRun

\* The load or the invoke of invocation e throws in this step.
Throws(e) == execs'[e] # execs[e] /\ hLast'.thrown # ""

\* C19: when the load fails or invoke throws, executeDescriptor catches
\* the error (executeById does not reject), hasRun is not set and the
\* preferences are unchanged.
C19_FailureCaught ==
  [][\A e \in ExecIds : Throws(e) =>
         /\ execs'[e].pc = "finished"
         /\ hLast'.outcome \in {"loadFailed", "invokeFailed"}
         /\ scriptStates' = scriptStates]_vars

SavesFor(id) == IF Has(hRunSaves, id) THEN hRunSaves[id] ELSE 0

\* The script of id has run and its preferences were saved once for that.
RunSavedOnce(id) == scriptStates[id].hasRun /\ SavesFor(id) = 1

\* C20: once invoke has completed successfully for a script that had not
\* run, hasRun is true and the preferences were saved once for it; further
\* successful invocations of the script save nothing more.
C20_SavedOnce ==
  /\ \A id \in DOMAIN hRunSaves : hRunSaves[id] <= 1
  /\ \A e \in ExecIds : execs[e].pc = "saving" => RunSavedOnce(execs[e].id)
  /\ hLast.outcome = "succeeded" => RunSavedOnce(hLast.id)

\* Two invocations of the script completed successfully, the second while
\* the save of the first was still in progress: one save.
C20_Witness ==
  /\ hLast.outcome = "succeeded"
  /\ \E e \in ExecIds : execs[e].pc = "saving" /\ execs[e].id = hLast.id /\ e # hLast.e
  /\ SavesFor(hLast.id) = 1

\* The folders of the vault that contain the file of a path.
FoldersOf(path) ==
  IF path \in StartupPaths
  THEN {baseFolder, baseFolder \o "/" \o STARTUP_FOLDER}
  ELSE {baseFolder}

UnderTrustedFolder(path) == trustedFolders \cap FoldersOf(path) # {}

\* The preference executeDescriptor works with for a registered id: the
\* stored one, else the record ensurePreference creates.
EffectivePreference(id) ==
  IF PreferenceOf(id) = {} THEN [enabled |-> TRUE, hasRun |-> FALSE]
  ELSE CHOOSE prefs \in PreferenceOf(id) : TRUE

\* The invoke of invocation e returns without throwing in this step.
InvokeReturns(e) ==
  execs[e].pc = "invoking" /\ execs'[e] # execs[e] /\ hLast'.thrown = ""

\* C21: for an enabled descriptor, executeDescriptor asks for confirmation
\* exactly when confirm-before-first-run is on, the script's path is inside
\* no trusted folder and hasRun is false; a script that runs without prompt
\* (under a trusted folder, say) has hasRun true once invoke has succeeded.
C21_ConfirmCondition ==
  [][\A e \in ExecIds :
       /\ (Starts(e) /\ Has(descriptorsById, hLast'.id)
             /\ EffectivePreference(hLast'.id).enabled) =>
            ((execs'[e].pc = "confirm") <=>
               (/\ confirmBeforeFirstRun
                /\ ~UnderTrustedFolder(descriptorsById[hLast'.id].path)
                /\ ~EffectivePreference(hLast'.id).hasRun))
       /\ InvokeReturns(e) => scriptStates'[execs[e].id].hasRun]_vars

\* With confirmation required, a never-run script under a trusted folder
\* was run without a prompt and succeeded: hasRun is set.
C21_Witness ==
  /\ confirmBeforeFirstRun
  /\ UnderTrustedFolder("a.js")
  /\ hLast.outcome = "succeeded"
  /\ SavesFor(hLast.id) = 1
  /\ scriptStates[hLast.id].hasRun

\* C22: startup scrippets are executed by the manager exactly when the
\* run-at-launch setting is enabled: no operation starts a batch while the
\* setting is off, and initialize() with the setting on has run the batch of
\* the startup scrippets it found.
C22_OnlyWhenEnabled ==
  /\ hBatch.state # "none" => hBatch.on
  /\ (watching /\ runStartupOnLoad /\ hUserOps = 0) =>
       (hBatch.state = "done" /\ Len(hBatch.list) = Cardinality(lastScan.startup))

\* The batch has returned or thrown.
BatchEnded == hBatch.state \in {"done", "rejected"}

\* The ids of the descriptors the batch has reached, in order.
HandledIds == [k \in 1..Len(hBatch.handled) |-> hBatch.handled[k].id]

\* C23: a batch that has ended has reached every descriptor of its list
\* once, in the order of the list (by display name), has attempted each one
\* that was enabled, and has recorded and reported a failure for exactly the
\* scripts that threw; it ends by returning, whatever the scripts did.
C23_StartupIsolation ==
  BatchEnded =>
    /\ hBatch.state = "done"
    /\ HandledIds = hBatch.list
    /\ \A k \in 1..Len(hBatch.handled) : hBatch.handled[k].enabled => hBatch.handled[k].ran
    /\ hBatch.failed = hBatch.threw

\* The descriptor process i is loading or invoking in its batch.
StartupCurrent(i) == procs[i].hBatch.handled[Len(procs[i].hBatch.handled)]

FilenameId(path) == toIdentifier(path, "")

\* The rename of old to new (a file without id directive) has been flushed:
\* new exists, old does not, and nothing is pending or in flight.
RenameFlushed(old, new) ==
  /\ Quiescent
  /\ hChanges > 0
  /\ Has(files, new) /\ files[new] = ""
  /\ ~Has(files, old)

\* What the flush of a rename leaves for certain: one descriptor at the new
\* path with the filename-derived id, none at the old path, no command for
\* the old id, and the old id's preference record.
RenameResult(old, new) ==
  /\ Has(descriptorsByPath, new)
  /\ descriptorsByPath[new].id = FilenameId(new)
  /\ DOMAIN descriptorsByPath = {new}
  /\ ~Has(descriptorsByPath, old)
  /\ FilenameId(old) \notin commands
  /\ Has(scriptStates, FilenameId(old))

\* C25 as stated: after the rename of old.js to new.js has been flushed
\* (and nothing was toggled), the registry holds one descriptor at the new
\* path with the filename-derived id and none at the old path, the old
\* id's command is unregistered, a command for the new id is registered,
\* and the old id's preference record still exists.
C25_Original ==
  \A old \in CommandPaths : \A new \in CommandPaths \ {old} :
    (RenameFlushed(old, new) /\ hUserOps = 0) =>
      (RenameResult(old, new) /\ FilenameId(new) \in commands)

\* C25: after the rename of old.js to new.js has been flushed, the registry
\* holds one descriptor at the new path with the filename-derived id and
\* none at the old path, the old id's command is unregistered, the old id's
\* preference record still exists, and a command for the new id is
\* registered exactly when the preference of the new id is enabled (a record
\* kept from an earlier script with that id or path, else a new, enabled one).
C25_RenameFlushed ==
  \A old \in CommandPaths : \A new \in CommandPaths \ {old} :
    RenameFlushed(old, new) =>
      /\ RenameResult(old, new)
      /\ Has(scriptStates, FilenameId(new))
      /\ descriptorsByPath[new].enabled = scriptStates[FilenameId(new)].enabled
      /\ FilenameId(new) \in commands <=> scriptStates[FilenameId(new)].enabled

\* a.js has been renamed to b.js and the rename flushed, nothing was
\* toggled: the preferences held a disabled record for b, and b has no
\* command.
C25_Witness ==
  /\ RenameFlushed("a.js", "b.js")
  /\ hUserOps = 0
  /\ Has(scriptStates, "a")
  /\ ~scriptStates["b"].enabled
  /\ "b" \notin commands

\* The preference records kept under an id (the other keys are the
\* normalized paths of legacy documents).
IdKeys == DOMAIN scriptStates \ Paths

\* The step is toggleDescriptor on the descriptor with this id.
ToggleStep(id) ==
  /\ hUserOps' = hUserOps + 1
  /\ procs' = procs
  /\ \E descriptor \in lastScan.commands \cup lastScan.startup : descriptor.id = id

\* The step is the return of invoke, without a throw, in an invocation of id.
RunSucceeds(id) ==
  \E e \in ExecIds :
    /\ execs[e].pc = "invoking"
    /\ execs[e].id = id
    /\ execs'[e] # execs[e]
    /\ hLast'.e = e
    /\ hLast'.thrown = ""

\* C26: no step deletes a preference record kept under an id or resets its
\* hasRun from true to false; its enabled flag changes only in a step of
\* toggleDescriptor for that id, and its hasRun becomes true only in the
\* step in which a run of that id succeeds. Full reloads, flushes,
\* descriptor removals, refreshes and id renames change none of the three.
C26_PreferencesPersist ==
  [][\A id \in IdKeys :
       /\ Has(scriptStates', id)
       /\ scriptStates'[id].enabled # scriptStates[id].enabled => ToggleStep(id)
       /\ scriptStates[id].hasRun => scriptStates'[id].hasRun
       /\ (~scriptStates[id].hasRun /\ scriptStates'[id].hasRun) => RunSucceeds(id)]_vars

\* foo was run (hasRun saved) and disabled, then a.js and b.js, the files
\* that claimed foo, have gone from the registry: its record is as it was.
C26_Witness ==
  /\ Quiescent
  /\ ExecsAtRest
  /\ hChanges > 0
  /\ hUserOps > 0
  /\ ~Has(descriptorsById, "foo")
  /\ Has(scriptStates, "foo")
  /\ scriptStates["foo"] = [enabled |-> FALSE, hasRun |-> TRUE]
  /\ RunSavedOnce("foo")

\* The ids ensurePreference is called with: those of the model's files and
\* the id of a file constructor.js.
EnsureIds == {"a", "b", "foo", "foo-2", "constructor"}

\* C27: ensurePreference(id, path), whatever the stored preferences: a
\* record under the id leaves the store unchanged; without one, a record
\* under the path is moved to the id with its enabled and hasRun values and
\* the path key is removed; if neither exists, a record {enabled: true,
\* hasRun: false} is created under the id.
C27_LegacyMigration ==
  \A id \in EnsureIds : \A path \in Paths :
    LET after == ensurePreference(Mgr, id, path).scriptStates IN
    /\ Has(scriptStates, id) => after = scriptStates
    /\ (~Has(scriptStates, id) /\ Has(scriptStates, path)) =>
         after = Put(Del(scriptStates, path), id, scriptStates[path])
    /\ (~Has(scriptStates, id) /\ ~Has(scriptStates, path)) =>
         after = Put(scriptStates, id, [enabled |-> TRUE, hasRun |-> FALSE])

\* C28: in every published scan, each descriptor's enabled flag equals the
\* enabled flag of the preference record stored under the descriptor's id.
C28_EnabledMirror ==
  \A descriptor \in lastScan.commands \cup lastScan.startup :
    /\ Has(scriptStates, descriptor.id)
    /\ descriptor.enabled = scriptStates[descriptor.id].enabled

PendingChanged == SeqToSet(pendingChanges.changed)
PendingDeleted == SeqToSet(pendingChanges.deleted)

\* The step is a watcher event that queues a deletion for path: the file
\* is deleted, or renamed away.
DeletionQueued(path) == watching /\ Has(files, path) /\ ~Has(files', path)

\* C29: in every reachable state no path is in both the changed and the
\* deleted set of the pending changes, and a step that queues a deletion
\* for a path leaves the path out of the changed set (and, unless a full
\* rescan is pending, in the deleted set).
C29_PendingDisjoint ==
  /\ [](PendingChanged \cap PendingDeleted = {})
  /\ [][\A path \in Paths :
          DeletionQueued(path) =>
            /\ path \notin SeqToSet(pendingChanges'.changed)
            /\ ~pendingChanges'.full => path \in SeqToSet(pendingChanges'.deleted)]_vars

\* a.js was modified and, before the timer fired, deleted: it is pending as
\* deleted only.
C29_Witness ==
  /\ hChanges = 2
  /\ hUserOps = 0
  /\ changeBurst = 2
  /\ hAccepted = {"a.js"}
  /\ ~Has(files, "a.js")
  /\ ~pendingChanges.full
  /\ pendingChanges.deleted = <<"a.js">>
  /\ pendingChanges.changed = <<>>

\* The step is the timer's callback: the pending set is flushed.
FlushStarts == reloadTimer # NoTimer /\ reloadTimer' = NoTimer

\* The processes the step starts.
Started == {i \in ProcIds : procs[i].pc = "idle" /\ procs'[i].pc # "idle"}

\* Process i is the flush of a pending set whose full flag was set.
FullFlush(i) == procs[i].op = "flush" /\ procs[i].stage # ""

\* C30: whenever the full flag of the pending set is true its changed and
\* deleted sets are empty, and an event queued then leaves the set as it
\* is; the flush of such a set clears the registry and starts one full
\* scan, and that flush never refreshes a single path.
C30_FullSupersedes ==
  /\ [](pendingChanges.full =>
          (pendingChanges.changed = <<>> /\ pendingChanges.deleted = <<>>))
  /\ [](\A i \in ProcIds :
          FullFlush(i) => (procs[i].pc # "refreshRead" /\ procs[i].rest = <<>>))
  /\ [][/\ (pendingChanges.full /\ hChanges' = hChanges + 1) =>
            pendingChanges' = pendingChanges
        /\ (pendingChanges.full /\ FlushStarts) =>
            /\ Cardinality(Started) = 1
            /\ \A i \in Started :
                 /\ procs'[i].pc = "listBase"
                 /\ procs'[i].op = "flush"
                 /\ procs'[i].stage = "list"
            /\ descriptorsByPath' = EmptyMap
            /\ descriptorsById' = EmptyMap
            /\ commands' = {}
            /\ pendingChanges' = createPendingChanges]_vars

\* The folder was renamed and a.js deleted within one timer period, the
\* timer has fired once: the flush is a full scan, nothing is pending.
C30_Witness ==
  /\ hChanges = 2
  /\ hWide = 1
  /\ ~Has(files, "a.js")
  /\ pendingChanges = createPendingChanges
  /\ descriptorsByPath = EmptyMap
  /\ \E i \in ProcIds :
       FullFlush(i) /\ procs[i].pc = "listBase" /\ Busy = {i}

\* The source is written in one of the supported shapes: a class bound to
\* Scrippet (or window.Scrippet), a class or object bound to defaultExport,
\* a factory or class or object literal assigned to module.exports (or
\* exports), a bare invoke function.
HasShape(source) ==
  /\ ~source.redeclares
  /\ \/ source.moduleExports \in {"module", "class", "factory"}
     \/ source.exports = "module"
     \/ source.Scrippet = "class"
     \/ source.defaultExport \in {"class", "module"}
     \/ isFunction(source.invoke)
     \/ source.windowScrippet = "class"

\* C31: loadScrippet returns an object with a callable invoke for every
\* source written in one of the supported shapes, and throws for every
\* source with none of them.
C31_LoaderShapes ==
  hLoad.applied =>
    /\ HasShape(hLoad.source) => hLoad.result.returned
    /\ ~HasShape(hLoad.source) => (~hLoad.result.returned /\ hLoad.result.thrown # "")

\* The script left the binding as the loader declared it.
LeftUnset(value) == value \in {"undefined", "initial"}

\* The first binding, in the order of the return expression, that the
\* script did not leave unset.
FirstSet(source) ==
  IF ~LeftUnset(source.moduleExports) THEN "module.exports"
  ELSE IF ~LeftUnset(source.exports) THEN "exports"
  ELSE IF ~LeftUnset(source.Scrippet) THEN "Scrippet"
  ELSE IF ~LeftUnset(source.defaultExport) THEN "defaultExport"
  ELSE IF isFunction(source.invoke) THEN "invoke"
  ELSE IF isFunction(source.windowScrippet) THEN "window.Scrippet"
  ELSE "none"

\* C32: the value loadScrippet resolves is that of the first binding, in
\* the order module.exports, exports, Scrippet, defaultExport, invoke,
\* window.Scrippet, that the script did not leave unset (when there is one).
C32_LoaderPrecedence ==
  (hLoad.applied /\ ~hLoad.source.redeclares /\ FirstSet(hLoad.source) # "none") =>
    hLoad.result.binding = FirstSet(hLoad.source)

\* The step is the end of invocation e's lazy load: the read and
\* loadScrippet have thrown, or have produced the instance.
LoadFails(e) ==
  execs[e].pc = "loadRead" /\ execs'[e] # execs[e] /\ hLast'.e = e /\ hLast'.thrown # ""
LoadSucceeds(e) ==
  execs[e].pc = "loadRead" /\ execs'[e] # execs[e] /\ hLast'.e = e /\ hLast'.thrown = ""

\* C33: a lazy load that fails during an invocation leaves the descriptor
\* in the registry and its command registered, records an error for the
\* descriptor's path, caches no instance for its id and leaves hasRun (the
\* preferences) unchanged; a load that succeeds clears the error recorded
\* for the path.
C33_LoadErrorOutcome ==
  [][\A e \in ExecIds :
       /\ LoadFails(e) =>
            /\ descriptorsByPath' = descriptorsByPath
            /\ descriptorsById' = descriptorsById
            /\ commands' = commands
            /\ Has(errorMap', execs[e].path)
            /\ execs[e].id \notin instanceCache'
            /\ scriptStates' = scriptStates
       /\ LoadSucceeds(e) =>
            /\ ~Has(errorMap', execs[e].path)
            /\ execs[e].id \in instanceCache']_vars

\* The outcomes of an invocation that are terminal failures: the script is
\* disabled, its load failed, its invoke failed ("rejected": the failure
\* left executeDescriptor as a rejection).
FailureOutcomes == {"disabled", "loadFailed", "invokeFailed", "rejected"}

\* C34: an invocation that ends in a terminal failure has produced exactly
\* one notice; one that ends declined, or succeeds, has produced none.
C34_OneNoticePerFailure ==
  /\ hLast.outcome \in FailureOutcomes => Len(hLast.notices) = 1
  /\ hLast.outcome \in {"declined", "succeeded"} => hLast.notices = <<>>

\* C35: a failing save is contained. initialize() goes on to register the
\* watchers once its reload is over; whenever no operation is in progress
\* the published scan is the scan of the registry; and an invocation is
\* reported as failed only if the script threw.
C35_SaveFailureContained ==
  /\ (initialized /\ Busy = {}) => watching
  /\ Busy = {} => lastScan = updateLastScan(Mgr).lastScan
  /\ hLast.outcome = "invokeFailed" => hLast.thrown # ""

\* C36: whenever no registry operation is in progress, the path map and the
\* id map hold the same descriptors: every descriptor of the path map is
\* the id map's entry for its id, every descriptor of the id map is the
\* path map's entry for its path, and the id map has an entry for every
\* descriptor of the published scan.
C36_MapAgreement ==
  Busy = {} =>
    /\ \A path \in DOMAIN descriptorsByPath :
         LET d == descriptorsByPath[path] IN
         Has(descriptorsById, d.id) /\ descriptorsById[d.id] = d
    /\ \A id \in DOMAIN descriptorsById :
         LET d == descriptorsById[id] IN
         Has(descriptorsByPath, d.path) /\ descriptorsByPath[d.path] = d
    /\ \A d \in lastScan.commands \cup lastScan.startup : Has(descriptorsById, d.id)

\* The step is a watcher event that creates path (or renames a file to it)
\* while a deletion of path is pending.
RecreatedWhilePending(path) ==
  /\ watching
  /\ ~Has(files, path)
  /\ Has(files', path)
  /\ path \in SeqToSet(pendingChanges.deleted)

\* C37: a create (or rename back) of a path whose deletion is pending is
\* not dropped, it leaves the path pending as changed; and once the events
\* of one timer period have been flushed, every file that exists (all are
\* valid here) has a descriptor.
C37_DeleteThenRecreate ==
  /\ [][\A path \in CommandPaths :
          RecreatedWhilePending(path) => path \in SeqToSet(pendingChanges'.changed)]_vars
  /\ []((Quiescent /\ hWide = 1 /\ hChanges > 0) =>
          \A path \in DOMAIN files : Has(descriptorsByPath, path))

\* The existing files whose descriptor holds id in the registry.
Holders(id) ==
  {p \in DOMAIN descriptorsByPath \cap DOMAIN files :
     descriptorsByPath[p].id = id /\ Resolved(p) = id}

\* The events so far were all flushed by one firing of the timer, and no
\* settings-tab operation has run.
OneFlushOnly == Quiescent /\ hWide = 1 /\ hChanges > 0 /\ hUserOps = 0

\* C38: once the flush of a deletion (or of a change of id) of the file
\* that held id X is over, an existing file that resolves to X and was
\* recorded as a duplicate of X is not left as a duplicate without a
\* holder: some existing file is registered with X, and a file that is
\* registered has neither a duplicate record nor an error record.
C38_DuplicateResolvedByRemoval ==
  OneFlushOnly =>
    \A q \in DOMAIN files :
      /\ Has(duplicates, q) => Holders(duplicates[q].id) \ {q} # {}
      /\ Has(descriptorsByPath, q) => (~Has(duplicates, q) /\ ~Has(errorMap, q))

\* The paths the published scan lists, as a descriptor, an error or a
\* duplicate.
Published ==
  {d.path : d \in lastScan.commands \cup lastScan.startup}
    \cup {e.path : e \in lastScan.errors}
    \cup {d.path : d \in lastScan.duplicates}

\* C39: once the deletion of a path has been flushed the path has no
\* descriptor, no error record and no duplicate record, in the manager's
\* maps and in the published scan.
C39_DeletionCleansRecords ==
  OneFlushOnly =>
    \A path \in Paths \ DOMAIN files :
      /\ ~Has(descriptorsByPath, path)
      /\ ~Has(errorMap, path)
      /\ ~Has(duplicates, path)
      /\ path \notin Published

\* The preference of the script of invocation e is disabled.
Disabled(e) ==
  Has(scriptStates, execs[e].id) /\ ~scriptStates[execs[e].id].enabled

\* The step calls invoke in invocation e, either as the dialog is accepted
\* (a cached instance) or as the load that followed the acceptance ends.
RunsAfterAccept(e) ==
  /\ execs'[e].pc = "invoking"
  /\ \/ execs[e].pc = "confirm"
     \/ (execs[e].pc = "loadRead" /\ hLast.e = e /\ hLast.answer = "yes")

\* C40: an invocation that waited for the first-run confirmation does not
\* call the script's invoke once the dialog is accepted while the script
\* is disabled.
C40_NoRunWhenDisabled ==
  [][\A e \in ExecIds : Disabled(e) => ~RunsAfterAccept(e)]_vars

====
